---------------------------- MODULE Spec2Model ----------------------------
(***************************************************************************)
(* Stage/step execution engine of the installer                            *)
(* (new-installer/targets/aws/pre_orch.go): a stage owns an ordered list   *)
(* of steps and runs three passes over it, PreStage (ConfigStep + PreStep  *)
(* of every step), RunStage (RunStep) and PostStage (PostStep), merging    *)
(* the runtime state each step returns into the canonical copy and         *)
(* recording each step's error at the step's index.                        *)
(*                                                                         *)
(* Go slices are indexed from 0, TLA+ sequences from 1: step k of the      *)
(* model is the step at Go index k-1.                                      *)
(*                                                                         *)
(* Steps are followed on their own: the Terraform utility with the         *)
(* RunStep of the VPC step that calls it (SpecTerraform), the ConfigStep   *)
(* of the VPC step, which lays out the subnets (SpecVPC), the sshuttle     *)
(* step with its teardown (SpecSshuttle), and Configure and Pre run a      *)
(* second time (SpecRerun).  SpecLabels is the stage engine under a label  *)
(* filter.  SpecBackend puts the state bucket next to the backend the VPC  *)
(* step is configured with.  Three functions of the on-prem installer      *)
(* (on-prem-installers/onprem/functions.go) have a specification each:     *)
(* GeneratePassword (SpecPassword), WaitForNamespaceCreation (SpecWait,    *)
(* with the fairness of a function that keeps running) and                 *)
(* AllowConfigInRuntime (SpecAllow).                                       *)
(***************************************************************************)
EXTENDS Integers, Sequences, FiniteSets, TLC

\* Longest step list explored (len(a.steps) ranges over 0..MaxSteps).
MaxSteps == 2

\* Runtime-state fields followed by the model, and the values a field holds
\* ("" is Go's zero value of a string field: not set).
Fields == {"VpcId", "SshuttlePID"}
Empty == ""
Values == {"v1", "v2"}

\* A nil *OrchInstallerError and a nil *OrchInstallerStageError.
Nil == [nil |-> TRUE]
NilStageError == [nil |-> TRUE]

VARIABLES
    steps,           \* len(a.steps)
    runtimeState,    \* *runtimeState, the canonical copy the passes mutate
    pass,            \* the pass in progress or just ended
    pc,              \* position inside the pass
    i,               \* the loop variable of the pass in progress (1-based)
    stepErrors,      \* the local stepErrors of the pass in progress
    containsError,   \* the local containsError of the pass in progress
    prevStageError,  \* PostStage's argument
    ret,             \* what the last pass returned
    calls,           \* the step operations called so far by this pass
    last,            \* the latest step call: snapshot given, what it returned
    written          \* the fields this pass has committed so far

\* The label filter of the run, as the set of the steps whose Labels()
\* it selects.
VARIABLE selected

\* One AWSVPCStep.RunStep and the TerraformUtility.Run it delegates to.
VARIABLES
    tfAction,            \* s.Action (config.Generated.Action)
    keepGeneratedFiles,  \* s.KeepGeneratedFiles
    tfPc,                \* position inside Run / RunStep
    envDir,              \* <ModulePath>/environments exists
    files,               \* the generated files that exist on disk
    tfCalls,             \* the calls made to the Terraform executable
    tfSteps,             \* the sub-steps of Run that have succeeded
    removeFailed,        \* the files whose os.Remove failed in this Run
    tfOutput,            \* the local output of Run
    tfRet,               \* what Run returned
    stepRet              \* what RunStep returned

\* One AWSVPCStep.ConfigStep.
VARIABLES
    minimumMask,         \* MinimumVPCCIDRMaskSize of the build
    publicMask,          \* PublicSubnetMaskSize of the build
    generated,           \* config.Generated handed to ConfigStep
    cfgPc,               \* position inside ConfigStep
    zones,               \* len(availabilityZones)
    privateSubnets,      \* s.variables.PrivateSubnets, in loop order
    publicSubnets,       \* s.variables.PublicSubnets, in loop order
    cfgRet,              \* what ConfigStep returned
    cfgRuns              \* how many times ConfigStep has been started

\* The Terraform state bucket and the backend the VPC step is given.
VARIABLES
    config,              \* the installer configuration of the deployment
    backendConfig,       \* s.backendConfig of the VPC step
    buckets              \* the S3 buckets that exist

\* One SshuttleStep on one machine: PreStep, RunStep, and the teardown.
VARIABLES
    shellUtilitySet,     \* s.ShellUtility != nil
    commands,            \* the commands commandExists finds
    procs,               \* the sshuttle processes that are running
    sshuttlePidFile,     \* the pid in /tmp/sshuttle.pid, if the file exists
    shState,             \* runtimeState handed to the phase in progress
    shPc,                \* position inside the step
    tmpFiles,            \* the temporary files of RunStep that exist
    sshuttleErr,         \* what the sshuttle start command returned
    localFailure,        \* the local operation of RunStep that failed
    started,             \* the process the start command has started
    shRet,               \* what the latest phase returned
    stopRet,             \* what StopSshuttle returned
    preRuns              \* how many times PreStep has run

\* One OnPrem.GeneratePassword.
VARIABLES
    pwPc,                \* position inside GeneratePassword
    password,            \* the local password of GeneratePassword
    runes,               \* the local r of shuffleString
    shuffleI,            \* the loop variable i of shuffleString
    pwRet                \* what GeneratePassword returned

\* One OnPrem.WaitForNamespaceCreation and the namespace it waits for.
VARIABLES
    wNamespace,          \* the argument namespace
    nsPhase,             \* .status.phase of the namespace in the cluster
    wPc,                 \* position inside WaitForNamespaceCreation
    wOut,                \* the phase in the local out (kubectl's output)
    activeSeen,          \* a poll has reported the phase Active
    wFailed,             \* the call that has failed, if one has
    wRet                 \* what WaitForNamespaceCreation returned

\* One OnPrem.AllowConfigInRuntime.
VARIABLES
    acPc,                \* position inside AllowConfigInRuntime
    assumeYes,           \* ASSUME_YES == "true"
    configExists,        \* configRepoPath exists
    answer,              \* the latest answer to the overwrite prompt
    env,                 \* the environment variables the function sets
    dockerUsername,      \* the local dockerUsername
    dockerPassword,      \* the local dockerPassword
    argoIP,              \* the local argoIP
    traefikIP,           \* the local traefikIP
    nginxIP,             \* the local nginxIP
    acRet                \* what AllowConfigInRuntime returned

stageVars == <<steps, runtimeState, pass, pc, i, stepErrors, containsError,
               prevStageError, ret, calls, last, written, selected>>
terraformVars == <<tfAction, keepGeneratedFiles, tfPc, envDir, files,
                   tfCalls, tfSteps, removeFailed, tfOutput, tfRet, stepRet>>
vpcVars == <<minimumMask, publicMask, generated, cfgPc, zones,
             privateSubnets, publicSubnets, cfgRet, cfgRuns>>
sshuttleVars == <<shellUtilitySet, commands, procs, sshuttlePidFile, shState,
                  shPc, tmpFiles, sshuttleErr, localFailure, started, shRet,
                  stopRet, preRuns>>

passwordVars == <<pwPc, password, runes, shuffleI, pwRet>>
waitVars == <<wNamespace, nsPhase, wPc, wOut, activeSeen, wFailed, wRet>>
allowVars == <<acPc, assumeYes, configExists, answer, env, dockerUsername,
               dockerPassword, argoIP, traefikIP, nginxIP, acRet>>
onpremVars == <<passwordVars, waitVars, allowVars>>
backendVars == <<config, backendConfig, buckets>>

vars == <<stageVars, terraformVars, vpcVars, sshuttleVars, onpremVars,
         backendVars>>

---------------------------------------------------------------------------
(* Values *)

RuntimeStates == [Fields -> Values \cup {Empty}]
EmptyState == [f \in Fields |-> Empty]

\* &internal.OrchInstallerError{ErrorCode: ..., ErrorMsg: ...} returned by
\* operation op of step k; the message names its origin.
StepError(op, k) ==
    [ErrorCode |-> "Internal", ErrorMsg |-> <<"step", op, k>>]

\* The error UpdateRuntimeState returns when the state a step returned
\* cannot be committed.
MergeError(op, k) ==
    [ErrorCode |-> "Internal", ErrorMsg |-> <<"merge", op, k>>]

\* Before the first step call of a pass.
NoCall == [snapshot |-> EmptyState, returned |-> EmptyState]

---------------------------------------------------------------------------
(* The state merge *)

Conflict(canon, cand) ==
    \E f \in Fields :
        cand[f] # Empty /\ canon[f] # Empty /\ cand[f] # canon[f]

\* Faulty variant of UpdateRuntimeState: the last writer wins.
UpdateRuntimeStateOverwrite(canon, cand, serOK, op, k) ==
    IF ~serOK
    THEN [state |-> canon, err |-> MergeError(op, k)]
    ELSE [state |-> [f \in Fields |->
                        IF cand[f] # Empty THEN cand[f] ELSE canon[f]],
          err |-> Nil]

\* runtimeState.UpdateRuntimeState(newRuntimeState): commits the candidate
\* into the canonical copy.  It fails, leaving the canonical copy as it
\* was, when the candidate cannot be serialized (serOK false) or sets a
\* field that already holds a different value; otherwise every field the
\* candidate sets is taken and every other field is kept.
UpdateRuntimeState(canon, cand, serOK, op, k) ==
    IF ~serOK
    THEN [state |-> canon, err |-> MergeError(op, k)]
    ELSE IF Conflict(canon, cand)
    THEN [state |-> canon, err |-> MergeError(op, k)]
    ELSE [state |-> [f \in Fields |->
                        IF cand[f] # Empty THEN cand[f] ELSE canon[f]],
          err |-> Nil]

---------------------------------------------------------------------------
(* Steps *)

\* What a step operation may do to the copy of the runtime state it was
\* given: return it as it is, or with one field set (AWSVPCStep.RunStep
\* sets VpcId, SshuttleStep.RunStep sets SshuttlePID).
Returned(snapshot) ==
    {snapshot} \cup
    {[snapshot EXCEPT ![f] = v] : f \in Fields, v \in Values}

\* The errors an operation of step k may return: none, an error of its
\* own, and for PostStep also the previous error it was handed
\* (AWSVPCStep.PostStep returns prevStepError).
ReturnedErrors(op, k, prev) ==
    {Nil, StepError(op, k)} \cup (IF op = "PostStep" THEN {prev} ELSE {})

\* AWSVPCStep.PostStep: return config.Generated, prevStepError
VPCPostStep(state, prevStepError) ==
    [state |-> state, err |-> prevStepError]

---------------------------------------------------------------------------
(* The pass bodies *)

\* stepErrors := make([]*internal.OrchInstallerError, len(a.steps))
MakeStepErrors(n) == [k \in 1..n |-> Nil]

\* Faulty variants of SetStepError: the error stored in the first slot
\* whatever the step, and a slot that keeps the first error stored in it.
SetStepErrorAtFirst(errs, k, e) == [errs EXCEPT ![1] = e]

SetStepErrorKeepFirst(errs, k, e) ==
    IF errs[k] # Nil THEN errs ELSE [errs EXCEPT ![k] = e]

\* stepErrors[i] = err
SetStepError(errs, k, e) == [errs EXCEPT ![k] = e]

\* stepError := prevStageError.StepErrors[i]
PrevStepError(prev, k) == prev.StepErrors[k]

\* if containsError { return &OrchInstallerStageError{StepErrors: stepErrors} }
\* return nil
StageResult(ce, errs) ==
    IF ce THEN [StepErrors |-> errs] ELSE NilStageError

\* Faulty variant of RecordedError: the step's own error is dropped.
RecordedErrorMergeOnly(err, mergeErr) == mergeErr

\* Faulty variant of RecordedError: the merge's error is dropped.
RecordedErrorStepOnly(err, mergeErr) == err

\* The error the if / else-if chain around one step call records: the
\* step's own error, else the merge's.
RecordedError(err, mergeErr) ==
    IF err # Nil THEN err ELSE mergeErr

\* Faulty variants of CommittedState: the returned state merged although
\* the step failed, and the merge result never stored in the canonical copy.
CommittedStateAlways(canon, err, merged) == merged

CommittedStateDropped(canon, err, merged) == canon

\* Faulty variant of CommittedState: only the fields the step has just
\* set are kept.
CommittedStateOnlyNew(canon, err, merged) ==
    IF err # Nil THEN canon
    ELSE [f \in Fields |-> IF merged[f] # canon[f] THEN merged[f] ELSE Empty]

\* The canonical state after one step call: the merge result when the step
\* returned no error (UpdateRuntimeState is not called otherwise).
CommittedState(canon, err, merged) ==
    IF err # Nil THEN canon ELSE merged

\* Faulty variant of NextCall: PreStage as two loops, ConfigStep of every
\* step and then PreStep of every step.
NextCallTwoLoops(op, k) ==
    CASE op = "ConfigStep" ->
            IF k < steps THEN [pc |-> "ConfigStep", i |-> k + 1]
                         ELSE [pc |-> "PreStep", i |-> 1]
      [] op = "PreStep" ->
            IF k < steps THEN [pc |-> "PreStep", i |-> k + 1]
                         ELSE [pc |-> "ConfigStep", i |-> steps + 1]
      [] OTHER -> [pc |-> op, i |-> k + 1]

\* Where the loop goes after operation op of step k: PreStage's loop body
\* calls ConfigStep and then PreStep of the same step before it moves to
\* the next step; RunStage's and PostStage's bodies hold one call.  No
\* body breaks out of the loop or returns.
NextCall(op, k) ==
    CASE op = "ConfigStep" -> [pc |-> "PreStep", i |-> k]
      [] op = "PreStep" -> [pc |-> "ConfigStep", i |-> k + 1]
      [] OTHER -> [pc |-> op, i |-> k + 1]

\* One "if newRuntimeState, err := step.Op(...); err != nil {...}
\*      else if err = runtimeState.UpdateRuntimeState(...); err != nil {...}"
\* for operation op of step k, the step returning (cand, err).
CallStep(op, k, prev, cand, err, serOK) ==
    LET m == UpdateRuntimeState(runtimeState, cand, serOK, op, k)
        mergeErr == IF err # Nil THEN Nil ELSE m.err
        rec == RecordedError(err, mergeErr)
    IN  /\ runtimeState' = CommittedState(runtimeState, err, m.state)
        /\ stepErrors' = IF rec # Nil THEN SetStepError(stepErrors, k, rec)
                                      ELSE stepErrors
        /\ containsError' = (containsError \/ rec # Nil)
        /\ pc' = NextCall(op, k).pc
        /\ i' = NextCall(op, k).i
        /\ calls' = Append(calls, [op |-> op, idx |-> k, prev |-> prev,
                                   err |-> err, mergeErr |-> mergeErr])
        /\ last' = [snapshot |-> runtimeState, returned |-> cand]
        /\ written' = IF err = Nil /\ mergeErr = Nil
                      THEN written \cup
                           {<<f, cand[f]>> : f \in {g \in Fields :
                                cand[g] # Empty /\ cand[g] # runtimeState[g]}}
                      ELSE written
        /\ UNCHANGED <<selected, terraformVars, vpcVars,
                   sshuttleVars, onpremVars, backendVars>>

\* Entry of a pass: the locals of lines 36-37, 63-64, 83-84.
EnterPass(p, first) ==
    /\ pass' = p
    /\ pc' = first
    /\ i' = 1
    /\ stepErrors' = MakeStepErrors(steps)
    /\ containsError' = FALSE
    /\ calls' = <<>>
    /\ last' = NoCall
    /\ written' = {}
    /\ ret' = NilStageError
    /\ UNCHANGED <<steps, runtimeState, selected, terraformVars, vpcVars,
                   sshuttleVars, onpremVars, backendVars>>

---------------------------------------------------------------------------
(* The pipeline driver: PreStage, then RunStage or straight to PostStage,  *)
(* PostStage being handed what the pass before it returned.                *)

StartPreStage ==
    /\ pass = "none"
    /\ EnterPass("PreStage", "ConfigStep")
    /\ UNCHANGED prevStageError

StartRunStage ==
    /\ pass = "PreStage" /\ pc = "returned"
    /\ EnterPass("RunStage", "RunStep")
    /\ UNCHANGED prevStageError

StartPostStage ==
    /\ pass \in {"PreStage", "RunStage"} /\ pc = "returned"
    /\ prevStageError' = ret
    /\ EnterPass("PostStage", "PostStep")

---------------------------------------------------------------------------
(* PreStage *)

PreStageConfigStep ==
    /\ pass = "PreStage" /\ pc = "ConfigStep" /\ i <= steps
    /\ \E cand \in Returned(runtimeState),
          err \in ReturnedErrors("ConfigStep", i, Nil),
          serOK \in BOOLEAN :
            CallStep("ConfigStep", i, Nil, cand, err, serOK)
    /\ UNCHANGED <<steps, pass, prevStageError, ret>>

PreStagePreStep ==
    /\ pass = "PreStage" /\ pc = "PreStep" /\ i <= steps
    /\ \E cand \in Returned(runtimeState),
          err \in ReturnedErrors("PreStep", i, Nil),
          serOK \in BOOLEAN :
            CallStep("PreStep", i, Nil, cand, err, serOK)
    /\ UNCHANGED <<steps, pass, prevStageError, ret>>

(* RunStage *)

RunStageRunStep ==
    /\ pass = "RunStage" /\ pc = "RunStep" /\ i <= steps
    /\ \E cand \in Returned(runtimeState),
          err \in ReturnedErrors("RunStep", i, Nil),
          serOK \in BOOLEAN :
            CallStep("RunStep", i, Nil, cand, err, serOK)
    /\ UNCHANGED <<steps, pass, prevStageError, ret>>

(* PostStage *)

\* stepError := prevStageError.StepErrors[i] on a nil prevStageError is a
\* nil pointer dereference: the Go runtime panics and PostStage ends there.
PostStagePanic ==
    /\ pass = "PostStage" /\ pc = "PostStep" /\ i <= steps
    /\ prevStageError = NilStageError
    /\ pc' = "panicked"
    /\ UNCHANGED <<steps, runtimeState, pass, i, stepErrors, containsError,
                   prevStageError, ret, calls, last, written, selected,
                   terraformVars, vpcVars,
                   sshuttleVars, onpremVars, backendVars>>

PostStagePostStep ==
    /\ pass = "PostStage" /\ pc = "PostStep" /\ i <= steps
    /\ prevStageError # NilStageError
    /\ LET stepError == PrevStepError(prevStageError, i)
       IN \E cand \in Returned(runtimeState),
             err \in ReturnedErrors("PostStep", i, stepError),
             serOK \in BOOLEAN :
               CallStep("PostStep", i, stepError, cand, err, serOK)
    /\ UNCHANGED <<steps, pass, prevStageError, ret>>

\* The end of the range loop and the return statement of a pass.
ReturnFromPass ==
    /\ pass \in {"PreStage", "RunStage", "PostStage"}
    /\ pc \in {"ConfigStep", "RunStep", "PostStep"}
    /\ i > steps
    /\ ret' = StageResult(containsError, stepErrors)
    /\ pc' = "returned"
    /\ UNCHANGED <<steps, runtimeState, pass, i, stepErrors, containsError,
                   prevStageError, calls, last, written, selected,
                   terraformVars, vpcVars,
                   sshuttleVars, onpremVars, backendVars>>

---------------------------------------------------------------------------

\* No RunStep of the VPC step is in progress.
TerraformIdle ==
    /\ tfAction = "install"
    /\ keepGeneratedFiles = FALSE
    /\ tfPc = "idle"
    /\ envDir = FALSE
    /\ files = {}
    /\ tfCalls = <<>>
    /\ tfSteps = <<>>
    /\ removeFailed = {}
    /\ tfOutput = Nil
    /\ tfRet = Nil
    /\ stepRet = Nil

\* No stage is running: an empty step list and no pass entered.
StageIdle ==
    /\ steps = 0
    /\ runtimeState = EmptyState
    /\ pass = "none"
    /\ pc = "idle"
    /\ i = 1
    /\ stepErrors = <<>>
    /\ containsError = FALSE
    /\ prevStageError = NilStageError
    /\ ret = NilStageError
    /\ calls = <<>>
    /\ last = NoCall
    /\ written = {}
    /\ selected = {}

\* No ConfigStep of the VPC step is in progress.
VPCIdle ==
    /\ minimumMask = 0
    /\ publicMask = 0
    /\ generated = <<>>
    /\ cfgPc = "idle"
    /\ zones = 0
    /\ privateSubnets = <<>>
    /\ publicSubnets = <<>>
    /\ cfgRet = Nil
    /\ cfgRuns = 0

\* No deployment is configured and no bucket exists.
BackendIdle ==
    /\ config = Nil
    /\ backendConfig = Nil
    /\ buckets = {}

\* No GeneratePassword is in progress.
PasswordIdle ==
    /\ pwPc = "idle"
    /\ password = <<>>
    /\ runes = <<>>
    /\ shuffleI = 0
    /\ pwRet = Nil

\* No WaitForNamespaceCreation is in progress.
WaitIdle ==
    /\ wNamespace = Empty
    /\ nsPhase = Empty
    /\ wPc = "idle"
    /\ wOut = Empty
    /\ activeSeen = FALSE
    /\ wFailed = Empty
    /\ wRet = Nil

\* No AllowConfigInRuntime is in progress.
AllowIdle ==
    /\ acPc = "idle"
    /\ assumeYes = FALSE
    /\ configExists = FALSE
    /\ answer = <<>>
    /\ env = <<>>
    /\ dockerUsername = <<>>
    /\ dockerPassword = <<>>
    /\ argoIP = <<>>
    /\ traefikIP = <<>>
    /\ nginxIP = <<>>
    /\ acRet = Nil

\* None of the on-prem functions is in progress.
OnPremIdle == PasswordIdle /\ WaitIdle /\ AllowIdle

\* No SshuttleStep is in progress.
SshuttleIdle ==
    /\ shellUtilitySet = TRUE
    /\ commands = {}
    /\ procs = {}
    /\ sshuttlePidFile = Empty
    /\ shState = Nil
    /\ shPc = "idle"
    /\ tmpFiles = {}
    /\ sshuttleErr = Nil
    /\ localFailure = Empty
    /\ started = Empty
    /\ shRet = Nil
    /\ stopRet = Nil
    /\ preRuns = 0

\* A stage freshly built over its step list, no pass entered yet.
StageInit ==
    /\ steps \in 0..MaxSteps
    /\ runtimeState \in RuntimeStates
    /\ pass = "none"
    /\ pc = "idle"
    /\ i = 1
    /\ stepErrors = <<>>
    /\ containsError = FALSE
    /\ prevStageError = NilStageError
    /\ ret = NilStageError
    /\ calls = <<>>
    /\ last = NoCall
    /\ written = {}

\* The stage engine alone; the passes never read the label filter, which
\* here selects every step.
Init ==
    /\ StageInit
    /\ selected = 1..steps
    /\ TerraformIdle
    /\ VPCIdle
    /\ SshuttleIdle
    /\ OnPremIdle
    /\ BackendIdle

Next ==
    \/ StartPreStage
    \/ StartRunStage
    \/ StartPostStage
    \/ PreStageConfigStep
    \/ PreStagePreStep
    \/ RunStageRunStep
    \/ PostStagePanic
    \/ PostStagePostStep
    \/ ReturnFromPass

Spec == Init /\ [][Next]_vars

\* The stage engine under every label filter: any subset of the steps may
\* be the selected one.
InitLabels ==
    /\ StageInit
    /\ selected \in SUBSET (1..steps)
    /\ TerraformIdle
    /\ VPCIdle
    /\ SshuttleIdle
    /\ OnPremIdle
    /\ BackendIdle

SpecLabels == InitLabels /\ [][Next]_vars

---------------------------------------------------------------------------
(* The Terraform utility (internal/steps, TerraformUtility.Run) and the    *)
(* RunStep of the VPC step that delegates to it.  Run is a straight line   *)
(* of sub-steps, each of which may fail and end the Run.                   *)

\* The Action values explored: the three the utility knows, "destroy"
\* (what RunStep compares the action with) and the zero value.
TFActions == {"install", "upgrade", "uninstall", "destroy", ""}

\* <ModulePath>/environments/variables.tfvars.json and backend.tfvars.json.
VariablesFile == "variables.tfvars.json"
BackendFile == "backend.tfvars.json"
GeneratedFiles == {VariablesFile, BackendFile}

\* The subnets ConfigStep has put into s.variables: "subnet-<az>" and
\* "subnet-<az>-pub" for each of the availability zones it uses.
ConfiguredPrivateSubnets == {"subnet-a", "subnet-b", "subnet-c"}
ConfiguredPublicSubnets == {"subnet-a-pub", "subnet-b-pub", "subnet-c-pub"}

\* The id Terraform reports for a subnet, and the VPC ids it may report.
SubnetId(name) == <<"id", name>>
VpcIds == {<<"v", "p", "c", "1">>, <<"v", "p", "c", "2">>}

\* A string as tf.Output holds it: raw JSON, the characters between
\* double quotes.
Quote == "\""
JSONString(chars) == <<Quote>> \o chars \o <<Quote>>

\* The outputs RunStep looks for, and what tf.Output may hold for each:
\* nothing; for vpc_id a JSON string; for the subnets a value that does
\* not marshal or parse, or an object that has the id of some subnets.
OutputKeys == {"vpc_id", "public_subnets", "private_subnets"}
VpcIdOutputs ==
    {[kind |-> "absent", raw |-> <<>>]} \cup
    {[kind |-> "value", raw |-> JSONString(v)] : v \in VpcIds}
SubnetOutputs(names) ==
    {[kind |-> k, ids |-> {}] : k \in {"absent", "malformed"}} \cup
    {[kind |-> "value", ids |-> have] : have \in SUBSET names}
Outputs ==
    [vpc_id : VpcIdOutputs,
     public_subnets : SubnetOutputs(ConfiguredPublicSubnets),
     private_subnets : SubnetOutputs(ConfiguredPrivateSubnets)]

\* The orders in which a range loop may visit the keys of a map.
Orders(names) ==
    {o \in [1..Cardinality(names) -> names] :
        \A n, m \in DOMAIN o : n # m => o[n] # o[m]}

TFError(code, msg) == [ErrorCode |-> code, ErrorMsg |-> msg]

\* (*TerraformUtilityOutput, *OrchInstallerError) as Run returns it.
RunResult(out, err) == [output |-> out, err |-> err]

\* Faulty variant of AppliesOn: upgrade is not an apply.
AppliesOnInstallOnly(action) == action = "install"

\* The dispatch on s.Action.
AppliesOn(action) == action \in {"install", "upgrade"}

DestroysOn(action) == action = "uninstall"

\* Faulty variant of FilesAfterCleanup: the files are deleted whatever
\* KeepGeneratedFiles says.
FilesAfterCleanupAlways(keep, fs, failed) == (fs \ GeneratedFiles) \cup failed

\* The files left by the clean-up at the end of a successful Run: with
\* KeepGeneratedFiles nothing is touched; without it every generated file
\* that exists is removed, and one whose os.Remove fails (only a warning
\* is logged) stays.
FilesAfterCleanup(keep, fs, failed) ==
    IF keep THEN fs ELSE (fs \ GeneratedFiles) \cup failed

\* strings.Trim(s, "\""): the leading and the trailing double quotes are
\* cut off.
RECURSIVE TrimQuotes(_)
TrimQuotes(chars) ==
    IF chars = <<>> THEN chars
    ELSE IF Head(chars) = Quote THEN TrimQuotes(Tail(chars))
    ELSE IF chars[Len(chars)] = Quote
    THEN TrimQuotes(SubSeq(chars, 1, Len(chars) - 1))
    ELSE chars

\* Faulty variant of SubnetIds: a subnet without an id is not noticed.
SubnetIdsUnchecked(order, have) ==
    [n \in 1..Len(order) |-> SubnetId(order[n])]

\* The loop over the configured subnets, visited in some order: the ids
\* appended until a subnet has no id in the output (have is the set of
\* subnets that do).
SubnetIds(order, have) ==
    LET missing == {n \in 1..Len(order) : order[n] \notin have}
        stop == IF missing = {} THEN Len(order)
                ELSE (CHOOSE n \in missing : \A m \in missing : n <= m) - 1
    IN  [n \in 1..stop |-> SubnetId(order[n])]

\* config.Generated as RunStep returns it (the fields it may assign), the
\* set of fields it did assign, and its error.
StepResult(wrote, vpcId, pub, priv, err) ==
    [wrote |-> wrote, VpcId |-> vpcId, PublicSubnetIds |-> pub,
     PrivateSubnetIds |-> priv, err |-> err]

\* Faulty variant of RunStepResult: the utility's error is handed on as
\* it is.
RunStepResultPassThrough(action, r, pubOrder, privOrder) ==
    IF r.err # Nil THEN StepResult({}, <<>>, <<>>, <<>>, r.err)
    ELSE StepResult({"VpcId", "PublicSubnetIds", "PrivateSubnetIds"},
                    TrimQuotes(r.output.vpc_id.raw),
                    SubnetIds(pubOrder, r.output.public_subnets.ids),
                    SubnetIds(privOrder, r.output.private_subnets.ids),
                    Nil)

\* What RunStep makes of what the utility returned, the two range loops
\* visiting the configured subnets in pubOrder and privOrder: the fields
\* of the copy of the runtime state it returns, those it assigned, and
\* its error.
RunStepResult(action, r, pubOrder, privOrder) ==
    LET fail(w, v, pub, priv, msg) ==
            StepResult(w, v, pub, priv, TFError("Terraform", msg))
        out == r.output
        vpcId == TrimQuotes(out.vpc_id.raw)
        pub == SubnetIds(pubOrder, out.public_subnets.ids)
        priv == SubnetIds(privOrder, out.private_subnets.ids)
    IN  IF r.err # Nil
        THEN fail({}, <<>>, <<>>, <<>>, <<"failed to run terraform", r.err>>)
        ELSE IF action = "destroy"
        THEN StepResult({}, <<>>, <<>>, <<>>, Nil)
        ELSE IF out = Nil
        THEN fail({}, <<>>, <<>>, <<>>,
                  <<"cannot find any output from VPC module">>)
        ELSE IF out.vpc_id.kind = "absent"
        THEN fail({}, <<>>, <<>>, <<>>,
                  <<"vpc_id does not exist in terraform output">>)
        ELSE IF out.public_subnets.kind = "absent"
        THEN fail({"VpcId"}, vpcId, <<>>, <<>>,
                  <<"public_subnets does not exist in terraform output">>)
        ELSE IF out.public_subnets.kind = "malformed"
        THEN fail({"VpcId"}, vpcId, <<>>, <<>>,
                  <<"public subnets output not usable">>)
        ELSE IF Len(pub) < Len(pubOrder)
        THEN fail({"VpcId", "PublicSubnetIds"}, vpcId, pub, <<>>,
                  <<"subnet id does not exist in terraform output",
                    pubOrder[Len(pub) + 1]>>)
        ELSE IF out.private_subnets.kind = "absent"
        THEN fail({"VpcId", "PublicSubnetIds"}, vpcId, pub, <<>>,
                  <<"private_subnets does not exist in terraform output">>)
        ELSE IF out.private_subnets.kind = "malformed"
        THEN fail({"VpcId", "PublicSubnetIds"}, vpcId, pub, <<>>,
                  <<"private subnets output not usable">>)
        ELSE IF Len(priv) < Len(privOrder)
        THEN fail({"VpcId", "PublicSubnetIds", "PrivateSubnetIds"},
                  vpcId, pub, priv,
                  <<"subnet id does not exist in terraform output",
                    privOrder[Len(priv) + 1]>>)
        ELSE StepResult({"VpcId", "PublicSubnetIds", "PrivateSubnetIds"},
                        vpcId, pub, priv, Nil)

\* Faulty variant of NextSubStep: the backend file is left out.
NextSubStepNoBackend(at) ==
    CASE at = "MkdirAll" -> "MarshalVariables"
      [] at = "MarshalVariables" -> "WriteVariables"
      [] at = "WriteVariables" -> "NewTerraform"
      [] at = "NewTerraform" -> "Init"
      [] at = "Init" -> "FileLogWriter"
      [] at = "FileLogWriter" -> "Dispatch"
      [] at = "Dispatch" -> "Output"
      [] at = "Output" -> "Cleanup"
      [] OTHER -> "RunReturned"

\* The statements of Run in program order: where Run goes when the
\* sub-step at has succeeded.
NextSubStep(at) ==
    CASE at = "MkdirAll" -> "MarshalVariables"
      [] at = "MarshalVariables" -> "WriteVariables"
      [] at = "WriteVariables" -> "MarshalBackend"
      [] at = "MarshalBackend" -> "WriteBackend"
      [] at = "WriteBackend" -> "NewTerraform"
      [] at = "NewTerraform" -> "Init"
      [] at = "Init" -> "FileLogWriter"
      [] at = "FileLogWriter" -> "Dispatch"
      [] at = "Dispatch" -> "Output"
      [] at = "Output" -> "Cleanup"
      [] OTHER -> "RunReturned"

\* Faulty variant of CleanupResult: a file that could not be deleted
\* fails the Run.
CleanupResultStrict(out, failed) ==
    IF failed = {} THEN [output |-> out, err |-> Nil]
    ELSE [output |-> Nil,
          err |-> [ErrorCode |-> "Internal",
                   ErrorMsg |-> "failed to delete generated file"]]

\* return &TerraformUtilityOutput{Output: output}, nil: what Run returns
\* after the clean-up, whatever the clean-up could not delete.
CleanupResult(out, failed) == [output |-> out, err |-> Nil]

\* "return nil, &internal.OrchInstallerError{...}" out of Run.
RunFails(code, msg) ==
    /\ tfRet' = RunResult(Nil, TFError(code, msg))
    /\ tfPc' = "RunReturned"

\* A sub-step that touches nothing the model follows: on success Run goes
\* on to the next sub-step, on failure it returns the error.
SubStep(next, code, msg) ==
    /\ \E ok \in BOOLEAN :
          IF ok THEN tfPc' = next /\ UNCHANGED tfRet
                ELSE RunFails(code, msg)
    /\ UNCHANGED <<tfAction, keepGeneratedFiles, envDir, files, tfCalls,
                   tfSteps, removeFailed, tfOutput, stepRet, stageVars,
                   vpcVars, sshuttleVars, onpremVars, backendVars>>

\* os.WriteFile of a generated file.
WriteGenerated(next, file, msg) ==
    /\ \E ok \in BOOLEAN :
          IF ok THEN /\ files' = files \cup {file}
                     /\ tfSteps' = Append(tfSteps, file)
                     /\ tfPc' = next
                     /\ UNCHANGED tfRet
                ELSE /\ RunFails("Internal", msg)
                     /\ UNCHANGED <<files, tfSteps>>
    /\ UNCHANGED <<tfAction, keepGeneratedFiles, envDir, tfCalls,
                   removeFailed, tfOutput, stepRet, stageVars, vpcVars,
                   sshuttleVars, onpremVars, backendVars>>

\* A call of the Terraform executable through tfexec.
TerraformCall(next, call, msg) ==
    /\ tfCalls' = Append(tfCalls, call)
    /\ \E ok \in BOOLEAN :
          IF ok THEN /\ tfSteps' = Append(tfSteps, call)
                     /\ tfPc' = next
                     /\ UNCHANGED tfRet
                ELSE /\ RunFails("Terraform", msg)
                     /\ UNCHANGED tfSteps
    /\ UNCHANGED <<tfAction, keepGeneratedFiles, envDir, files,
                   removeFailed, tfOutput, stepRet, stageVars, vpcVars,
                   sshuttleVars, onpremVars, backendVars>>

\* RunStep builds the utility's input and calls it.
RunStepCallsRun ==
    /\ tfPc = "RunStep"
    /\ tfPc' = "MkdirAll"
    /\ UNCHANGED <<tfAction, keepGeneratedFiles, envDir, files, tfCalls,
                   tfSteps, removeFailed, tfOutput, tfRet, stepRet, stageVars,
                   vpcVars, sshuttleVars, onpremVars, backendVars>>

\* os.Stat of the environments directory, os.MkdirAll if it is missing.
MkdirAll ==
    /\ tfPc = "MkdirAll"
    /\ \E ok \in BOOLEAN :
          IF envDir \/ ok
          THEN envDir' = TRUE /\ tfPc' = NextSubStep("MkdirAll")
               /\ UNCHANGED tfRet
          ELSE RunFails("Internal", "failed to create environments directory")
               /\ UNCHANGED envDir
    /\ UNCHANGED <<tfAction, keepGeneratedFiles, files, tfCalls, tfSteps,
                   removeFailed, tfOutput, stepRet, stageVars, vpcVars,
                   sshuttleVars, onpremVars, backendVars>>

MarshalVariables ==
    /\ tfPc = "MarshalVariables"
    /\ SubStep(NextSubStep("MarshalVariables"), "Internal",
               "failed to marshal variables")

WriteVariables ==
    /\ tfPc = "WriteVariables"
    /\ WriteGenerated(NextSubStep("WriteVariables"), VariablesFile,
                      "failed to write variables file")

MarshalBackend ==
    /\ tfPc = "MarshalBackend"
    /\ SubStep(NextSubStep("MarshalBackend"), "Internal",
               "failed to marshal backend config")

WriteBackend ==
    /\ tfPc = "WriteBackend"
    /\ WriteGenerated(NextSubStep("WriteBackend"), BackendFile,
                      "failed to write backend config file")

\* tfexec.NewTerraform only checks the working directory and the
\* executable's path: the executable is not run.
NewTerraform ==
    /\ tfPc = "NewTerraform"
    /\ SubStep(NextSubStep("NewTerraform"), "Terraform",
               "failed to create terraform instance")

TerraformInit ==
    /\ tfPc = "Init"
    /\ TerraformCall(NextSubStep("Init"), "Init",
                     "failed to create terraform instance")

FileLogWriter ==
    /\ tfPc = "FileLogWriter"
    /\ SubStep(NextSubStep("FileLogWriter"), "Internal",
               "failed to create file log writer")

TerraformApply ==
    /\ tfPc = "Dispatch"
    /\ AppliesOn(tfAction)
    /\ TerraformCall(NextSubStep("Dispatch"), "Apply",
                     "failed to apply terraform config")

TerraformDestroy ==
    /\ tfPc = "Dispatch"
    /\ ~AppliesOn(tfAction) /\ DestroysOn(tfAction)
    /\ TerraformCall(NextSubStep("Dispatch"), "Destroy",
                     "failed to destroy terraform config")

UnsupportedAction ==
    /\ tfPc = "Dispatch"
    /\ ~AppliesOn(tfAction) /\ ~DestroysOn(tfAction)
    /\ RunFails("InvalidArgument", "unsupported action")
    /\ UNCHANGED <<tfAction, keepGeneratedFiles, envDir, files, tfCalls,
                   tfSteps, removeFailed, tfOutput, stepRet, stageVars,
                   vpcVars, sshuttleVars, onpremVars, backendVars>>

\* output, err := tf.Output(ctx)
TerraformOutput ==
    /\ tfPc = "Output"
    /\ tfCalls' = Append(tfCalls, "Output")
    /\ \/ \E out \in Outputs :
             /\ tfOutput' = out /\ tfPc' = NextSubStep("Output")
             /\ tfSteps' = Append(tfSteps, "Output")
             /\ UNCHANGED tfRet
       \/ /\ RunFails("Terraform", "failed to retrieve terraform output")
          /\ UNCHANGED <<tfOutput, tfSteps>>
    /\ UNCHANGED <<tfAction, keepGeneratedFiles, envDir, files,
                   removeFailed, stepRet, stageVars, vpcVars, sshuttleVars,
                   onpremVars, backendVars>>

\* The clean-up of the generated files and the successful return.
CleanupAndReturn ==
    /\ tfPc = "Cleanup"
    /\ \E failed \in SUBSET (files \cap GeneratedFiles) :
          /\ removeFailed' = IF keepGeneratedFiles THEN {} ELSE failed
          /\ files' = FilesAfterCleanup(keepGeneratedFiles, files, failed)
    /\ tfSteps' = Append(tfSteps, "Cleanup")
    /\ tfRet' = CleanupResult(tfOutput, removeFailed')
    /\ tfPc' = NextSubStep("Cleanup")
    /\ UNCHANGED <<tfAction, keepGeneratedFiles, envDir, tfCalls, tfOutput,
                   stepRet, stageVars, vpcVars, sshuttleVars, onpremVars,
                   backendVars>>

\* The rest of RunStep, once the utility has returned.
RunStepReturns ==
    /\ tfPc = "RunReturned"
    /\ \E pubOrder \in Orders(ConfiguredPublicSubnets),
          privOrder \in Orders(ConfiguredPrivateSubnets) :
            stepRet' = RunStepResult(tfAction, tfRet, pubOrder, privOrder)
    /\ tfPc' = "done"
    /\ UNCHANGED <<tfAction, keepGeneratedFiles, envDir, files, tfCalls,
                   tfSteps, removeFailed, tfOutput, tfRet, stageVars, vpcVars,
                   sshuttleVars, onpremVars, backendVars>>

\* A VPC step about to run, in any module directory: the environments
\* directory and generated files of an earlier run may be there.
InitTerraform ==
    /\ tfAction \in TFActions
    /\ keepGeneratedFiles \in BOOLEAN
    /\ tfPc = "RunStep"
    /\ envDir \in BOOLEAN
    /\ files \in SUBSET GeneratedFiles
    /\ files # {} => envDir
    /\ tfCalls = <<>>
    /\ tfSteps = <<>>
    /\ removeFailed = {}
    /\ tfOutput = Nil
    /\ tfRet = Nil
    /\ stepRet = Nil
    /\ StageIdle
    /\ VPCIdle
    /\ SshuttleIdle
    /\ OnPremIdle
    /\ BackendIdle

NextTerraform ==
    \/ RunStepCallsRun
    \/ MkdirAll
    \/ MarshalVariables
    \/ WriteVariables
    \/ MarshalBackend
    \/ WriteBackend
    \/ NewTerraform
    \/ TerraformInit
    \/ FileLogWriter
    \/ TerraformApply
    \/ TerraformDestroy
    \/ UnsupportedAction
    \/ TerraformOutput
    \/ CleanupAndReturn
    \/ RunStepReturns

SpecTerraform == InitTerraform /\ [][NextTerraform]_vars

\* Run has returned, and returned no error.
RunSucceeded == tfPc \in {"RunReturned", "done"} /\ tfRet.err = Nil

\* The number of times the Terraform executable was asked to do call.
CallsOf(call) == Cardinality({n \in 1..Len(tfCalls) : tfCalls[n] = call})

---------------------------------------------------------------------------
(* ConfigStep of the VPC step (internal/steps/aws/vpc.go): the subnet      *)
(* layout computed from the VPC CIDR block, and the jumphost key pair.     *)
(*                                                                         *)
(* A CIDR block "a.b.c.d/m" is the record [ip |-> <<a, b, c, d>>,          *)
(* mask |-> m].  A uint32 is the pair <<high 16 bits, low 16 bits>>, so    *)
(* that sums wrap at 32 bits.                                              *)

DefaultNetworkCIDR == [ip |-> <<10, 250, 0, 0>>, mask |-> 16]

\* Constants of the package that vpc.go uses and does not define.
RequiredAvailabilityZones == 3
PrivateSubnetMaskSize == 20
PublicSubnetMaskSizes == {20, 24, 28}
MinimumVPCCIDRMaskSizes == {12, 16, 20}

\* The numbers of zones GetAvailableZones may find in a region.
ZoneCounts == {3, 4}

\* The jumphost keys of config.Generated: not set, or set by an earlier
\* ConfigStep.
KeyValues == {Empty, "key"}
GeneratedStates ==
    [JumpHostSSHKeyPrivateKey : KeyValues, JumpHostSSHKeyPublicKey : KeyValues]

Half == 65536

\* net.ParseCIDR: the address and the mask length, or an error when an
\* octet or the mask is out of range.
ParseCIDR(c) ==
    IF /\ c.mask \in 0..32
       /\ \A n \in 1..4 : c.ip[n] \in 0..255
    THEN [ok |-> TRUE, ip |-> c.ip, maskSize |-> c.mask]
    ELSE [ok |-> FALSE, ip |-> <<>>, maskSize |-> 0]

\* ipconv.IPv4ToInt and ipconv.IntToIPv4.
IPv4ToInt(ip) == <<ip[1] * 256 + ip[2], ip[3] * 256 + ip[4]>>
IntToIPv4(x) == <<x[1] \div 256, x[1] % 256, x[2] \div 256, x[2] % 256>>

\* x + uint32(n) in uint32 arithmetic.
AddUint32(x, n) ==
    LET lo == x[2] + (n % Half)
        hi == x[1] + (n \div Half) + (lo \div Half)
    IN  <<hi % Half, lo % Half>>

\* 1 << uint(32 - maskSize)
BlockSize(maskSize) == 2 ^ (32 - maskSize)

\* fmt.Sprintf("%s/%d", ip.String(), maskSize) of subnet i (from 0) of a
\* run of subnets that starts at netAddrInt.
Subnet(netAddrInt, n, maskSize) ==
    [ip |-> IntToIPv4(AddUint32(netAddrInt, n * BlockSize(maskSize))),
     mask |-> maskSize]

\* Faulty variant of AfterPrivateSubnets: the public subnets start where
\* the private ones do.
AfterPrivateSubnetsSame(netAddrInt) == netAddrInt

\* netAddrInt += RequiredAvailabilityZones * (1 << uint(32-PrivateSubnetMaskSize))
AfterPrivateSubnets(netAddrInt) ==
    AddUint32(netAddrInt,
              RequiredAvailabilityZones * BlockSize(PrivateSubnetMaskSize))

\* Faulty variant of TooSmall: the comparison is turned round.
TooSmallReversed(maskSize, minimum) == maskSize < minimum

\* vpcMaskSize > MinimumVPCCIDRMaskSize: the block has fewer addresses
\* than the smallest block accepted.
TooSmall(maskSize, minimum) == maskSize > minimum

\* (config.Generated, *OrchInstallerError) as ConfigStep returns it.
ConfigResult(state, err) == [state |-> state, err |-> err]

\* Faulty variant of NeedsKeyPair: a key pair is generated every time.
NeedsKeyPairAlways(state) == TRUE

DefaultTerraformBackendBucketKey == "vpc.tfstate"

\* The configuration of the state-bucket test: region us-west-2, the
\* orchestrator called test, a random deployment id.
TestConfig ==
    [Region |-> "us-west-2", OrchName |-> <<"t", "e", "s", "t">>,
     DeploymentId |-> <<"a", "b">>, Action |-> "install"]

\* Names are sequences of characters.
OrchNames == {<<"t", "e", "s", "t">>, <<"o">>, <<"o", "-">>}
DeploymentIds == {<<"a", "b">>, <<"-", "a">>, <<"a">>}
Regions == {"us-west-2", "eu-west-1"}

\* The configurations a deployment may have.
Configs ==
    [Region : Regions, OrchName : OrchNames, DeploymentId : DeploymentIds,
     Action : {"install", "uninstall"}]

\* The name of the bucket the state-bucket step has created when an
\* install is through: OrchName + "-" + DeploymentID.
StateBucketName(c) == c.OrchName \o <<"-">> \o c.DeploymentId

\* Faulty variant of BackendBucket: the separator is left out.
BackendBucketNoSeparator(c) == c.OrchName \o c.DeploymentId

\* Bucket: config.Global.OrchName + "-" + config.Generated.DeploymentId
BackendBucket(c) == c.OrchName \o <<"-">> \o c.DeploymentId

\* s.backendConfig = TerraformAWSBucketBackendConfig{...}
BackendConfig(c) ==
    [Region |-> c.Region, Bucket |-> BackendBucket(c),
     Key |-> DefaultTerraformBackendBucketKey]

\* if config.Generated.JumpHostSSHKeyPrivateKey == "" ||
\*    config.Generated.JumpHostSSHKeyPublicKey == ""
NeedsKeyPair(state) ==
    \/ state.JumpHostSSHKeyPrivateKey = Empty
    \/ state.JumpHostSSHKeyPublicKey = Empty

\* GenerateSSHKeyPair(): a fresh key pair at every call.
NewKeyPair(run) ==
    LET key == IF run = 1 THEN "generated" ELSE "generated again"
    IN  [JumpHostSSHKeyPrivateKey |-> key, JumpHostSSHKeyPublicKey |-> key]

\* ConfigStep up to the zone lookup.
ConfigGetAvailableZones ==
    /\ cfgPc = "ConfigStep"
    /\ \/ \E n \in ZoneCounts : zones' = n /\ cfgPc' = "Subnets"
                                /\ UNCHANGED cfgRet
       \/ /\ cfgRet' = ConfigResult(generated,
                          TFError("Internal",
                                  "failed to get availability zones"))
          /\ cfgPc' = "done"
          /\ UNCHANGED zones
    /\ UNCHANGED <<minimumMask, publicMask, generated, privateSubnets,
                   publicSubnets, cfgRuns, stageVars, terraformVars,
                   sshuttleVars, onpremVars, backendVars>>

\* The CIDR block is parsed and checked, and the subnets are laid out:
\* one private and one public subnet per required zone, the public ones
\* after the private ones.
ConfigSubnets ==
    /\ cfgPc = "Subnets"
    /\ LET parsed == ParseCIDR(DefaultNetworkCIDR)
           netAddrInt == IPv4ToInt(parsed.ip)
           fails(msg) ==
               /\ cfgRet' = ConfigResult(generated,
                                         TFError("InvalidArgument", msg))
               /\ cfgPc' = "done"
               /\ UNCHANGED <<privateSubnets, publicSubnets>>
       IN  IF ~parsed.ok
           THEN fails("failed to parse VPC CIDR block")
           ELSE IF TooSmall(parsed.maskSize, minimumMask)
           THEN fails("VPC CIDR block is too small")
           ELSE /\ privateSubnets' =
                      [n \in 1..RequiredAvailabilityZones |->
                          Subnet(netAddrInt, n - 1, PrivateSubnetMaskSize)]
                /\ publicSubnets' =
                      [n \in 1..RequiredAvailabilityZones |->
                          Subnet(AfterPrivateSubnets(netAddrInt), n - 1,
                                 publicMask)]
                /\ cfgPc' = "Jumphost"
                /\ UNCHANGED cfgRet
    /\ UNCHANGED <<minimumMask, publicMask, generated, zones, cfgRuns,
                   stageVars, terraformVars, sshuttleVars, onpremVars,
                   backendVars>>

\* The jumphost settings, the key pair (generated only when one of the
\* two keys is missing) and, when nothing has failed, the backend
\* configuration.
ConfigJumphost ==
    /\ cfgPc = "Jumphost"
    /\ IF NeedsKeyPair(generated)
       THEN \/ /\ cfgRet' = ConfigResult(NewKeyPair(cfgRuns), Nil)
               /\ backendConfig' = BackendConfig(config)
            \/ /\ cfgRet' = ConfigResult(generated,
                      TFError("Internal", "failed to generate SSH key pair"))
               /\ UNCHANGED backendConfig
       ELSE /\ cfgRet' = ConfigResult(generated, Nil)
            /\ backendConfig' = BackendConfig(config)
    /\ cfgPc' = "done"
    /\ UNCHANGED <<minimumMask, publicMask, generated, zones,
                   privateSubnets, publicSubnets, cfgRuns, config, buckets,
                   stageVars, terraformVars, sshuttleVars, onpremVars>>

\* A VPC step about to be configured, in any build of the package and
\* with any runtime state.
VPCUnconfigured ==
    /\ minimumMask \in MinimumVPCCIDRMaskSizes
    /\ publicMask \in PublicSubnetMaskSizes
    /\ generated \in GeneratedStates
    /\ cfgPc = "ConfigStep"
    /\ zones = 0
    /\ privateSubnets = <<>>
    /\ publicSubnets = <<>>
    /\ cfgRet = Nil
    /\ cfgRuns = 1

\* The deployment of the state-bucket test, nothing provisioned yet.
BackendUnconfigured ==
    /\ config = TestConfig
    /\ backendConfig = Nil
    /\ buckets = {}

InitVPC ==
    /\ VPCUnconfigured
    /\ StageIdle
    /\ TerraformIdle
    /\ SshuttleIdle
    /\ OnPremIdle
    /\ BackendUnconfigured

NextVPC ==
    \/ ConfigGetAvailableZones
    \/ ConfigSubnets
    \/ ConfigJumphost

SpecVPC == InitVPC /\ [][NextVPC]_vars

\* The first and the last address of the network a CIDR block denotes
\* (the address with the host bits cleared, and with the host bits set).
FirstAddress(c) ==
    LET x == IPv4ToInt(c.ip)
    IN  IF c.mask >= 16
        THEN <<x[1], x[2] - (x[2] % BlockSize(c.mask))>>
        ELSE <<x[1] - (x[1] % BlockSize(c.mask + 16)), 0>>

LastAddress(c) ==
    LET f == FirstAddress(c)
    IN  IF c.mask >= 16
        THEN <<f[1], f[2] + BlockSize(c.mask) - 1>>
        ELSE <<f[1] + BlockSize(c.mask + 16) - 1, Half - 1>>

Below(x, y) == x[1] < y[1] \/ (x[1] = y[1] /\ x[2] < y[2])

Overlap(c, d) ==
    /\ ~Below(LastAddress(c), FirstAddress(d))
    /\ ~Below(LastAddress(d), FirstAddress(c))

\* ConfigStep has laid out the subnets.
SubnetsComputed == cfgPc \in {"Jumphost", "done"} /\ privateSubnets # <<>>

---------------------------------------------------------------------------
(* The sshuttle step (steps_common, SshuttleStep): PreStep checks the      *)
(* machine and stops a tunnel left running, RunStep starts the tunnel      *)
(* through two temporary files, PostStep and StopSshuttle are the          *)
(* teardown.                                                               *)

\* Process ids: tunnels that may be running before the step, the tunnel
\* RunStep starts, a process that has died, and a pid an earlier run left
\* in the runtime state.
StalePIDs == {"101", "102"}
NewPID == "200"
DeadPID == "99"
OldPID == "77"

\* The commands PreStep looks for.
Tools == {"sudo", "nc"}

\* os.CreateTemp("", "jumphost-key-*.pem") and ("", "sshuttle-pid-*.txt").
KeyFile == "jumphost-key-*.pem"
PidFile == "sshuttle-pid-*.txt"

\* The runtime-state fields the step reads or writes.
SshuttleStates ==
    [JumpHostSSHKeyPrivateKey : KeyValues, SshuttlePID : {Empty, OldPID}]

\* (runtimeState, *OrchInstallerError) as a phase returns it.
PhaseResult(state, err) == [state |-> state, err |-> err]

\* "sudo kill <pgrep output>": the trimmed output of pgrep is one argument,
\* a pid only when exactly one process was found; the kill of one process
\* may still fail.
KillOutcomes(found) ==
    IF Cardinality(found) = 1 THEN BOOLEAN ELSE {FALSE}

\* Faulty variant of PreStepResult: the private key is not looked at.
PreStepResultNoKeyCheck(set, cmds, found, killOK, state) ==
    IF ~set \/ ~(Tools \subseteq cmds) \/ (found # {} /\ ~killOK)
    THEN PhaseResult(state, TFError("Internal", "PreStep"))
    ELSE PhaseResult(state, Nil)

\* SshuttleStep.PreStep: found is what pgrep reports, killOK whether the
\* kill of what it reports succeeded.
PreStepResult(set, cmds, found, killOK, state) ==
    LET fail(msg) == PhaseResult(state, TFError("Internal", msg))
    IN  IF ~set THEN fail("Shell utility is not initialized.")
        ELSE IF "sudo" \notin cmds
        THEN fail("sudo command is not available.")
        ELSE IF "nc" \notin cmds
        THEN fail("nc command is not available.")
        ELSE IF found # {} /\ ~killOK
        THEN fail("failed to stop existing sshuttle process")
        ELSE IF state.JumpHostSSHKeyPrivateKey = Empty
        THEN fail("Jump host SSH private key is not set")
        ELSE PhaseResult(state, Nil)

\* The processes left running by PreStep.
ProcsAfterPreStep(set, cmds, found, killOK) ==
    IF set /\ Tools \subseteq cmds /\ killOK THEN {} ELSE found

\* PreStep, the whole of it, handed the runtime state state.
PreStepOn(state) ==
    /\ shState' = state
    /\ \E killOK \in KillOutcomes(procs) :
          /\ shRet' = PreStepResult(shellUtilitySet, commands, procs, killOK,
                                    state)
          /\ procs' = ProcsAfterPreStep(shellUtilitySet, commands, procs,
                                        killOK)
    /\ preRuns' = preRuns + 1
    /\ shPc' = "PreReturned"
    /\ UNCHANGED <<shellUtilitySet, commands, sshuttlePidFile, tmpFiles,
                   sshuttleErr, localFailure, started, stopRet>>

SshuttlePreStep ==
    /\ shPc = "PreStep"
    /\ PreStepOn(shState)
    /\ UNCHANGED <<stageVars, terraformVars, vpcVars, onpremVars, backendVars>>

\* ShellUtility.Run with SkipError false: an error when the command
\* fails and when it runs into its timeout.
ShellRunError(outcome) ==
    IF outcome = "ok" THEN Nil ELSE [command |-> outcome]

\* Faulty variant of StartFailed: the error of the start command is not
\* looked at.
StartFailedNever(err) == FALSE

\* if sshuttleErr != nil
StartFailed(err) == err # Nil

\* A return of RunStep: the deferred os.Remove of the private-key file
\* runs (its error is dropped), nothing removes the PID file.
RunStepReturn(state, err) ==
    /\ shRet' = PhaseResult(state, err)
    /\ shPc' = "RunReturned"
    /\ \E removed \in BOOLEAN :
          tmpFiles' = IF removed THEN tmpFiles \ {KeyFile} ELSE tmpFiles

\* A local operation of RunStep that leaves the files where they are: on
\* success RunStep goes on, on failure it returns an Internal error and
\* the runtime state it was given.
LocalOp(next, msg) ==
    /\ \E ok \in BOOLEAN :
          IF ok THEN /\ shPc' = next
                     /\ UNCHANGED <<shRet, tmpFiles, localFailure>>
                ELSE /\ RunStepReturn(shState, TFError("Internal", msg))
                     /\ localFailure' = msg
    /\ UNCHANGED <<shellUtilitySet, commands, procs, sshuttlePidFile,
                   shState, sshuttleErr, started, stopRet, preRuns,
                   stageVars, terraformVars, vpcVars, onpremVars, backendVars>>

\* privateKeyFile, err := os.CreateTemp(...) and the defer statement after
\* it, whose argument privateKeyFile.Name() is evaluated at once: when
\* CreateTemp has failed privateKeyFile is nil and Name() dereferences it.
CreateKeyFile ==
    /\ shPc = "PreReturned"
    /\ \E ok \in BOOLEAN :
          IF ok THEN /\ tmpFiles' = tmpFiles \cup {KeyFile}
                     /\ shPc' = "WriteKey"
                     /\ UNCHANGED localFailure
                ELSE /\ shPc' = "panicked"
                     /\ localFailure' =
                           "failed to create temporary private key file"
                     /\ UNCHANGED tmpFiles
    /\ UNCHANGED <<shellUtilitySet, commands, procs, sshuttlePidFile,
                   shState, sshuttleErr, started, shRet, stopRet, preRuns,
                   stageVars, terraformVars, vpcVars, onpremVars, backendVars>>

WriteKey ==
    /\ shPc = "WriteKey"
    /\ LocalOp("CloseKey", "failed to write private key to temporary file")

CloseKey ==
    /\ shPc = "CloseKey"
    /\ LocalOp("ChmodKey", "failed to close temporary private key file")

ChmodKey ==
    /\ shPc = "ChmodKey"
    /\ LocalOp("CreatePidFile",
               "failed to set permissions on temporary private key file")

CreatePidFile ==
    /\ shPc = "CreatePidFile"
    /\ \E ok \in BOOLEAN :
          IF ok THEN /\ tmpFiles' = tmpFiles \cup {PidFile}
                     /\ shPc' = "ClosePidFile"
                     /\ UNCHANGED <<shRet, localFailure>>
                ELSE /\ RunStepReturn(shState,
                           TFError("Internal",
                                   "failed to create temporary PID file"))
                     /\ localFailure' = "failed to create temporary PID file"
    /\ UNCHANGED <<shellUtilitySet, commands, procs, sshuttlePidFile,
                   shState, sshuttleErr, started, stopRet, preRuns,
                   stageVars, terraformVars, vpcVars, onpremVars, backendVars>>

ClosePidFile ==
    /\ shPc = "ClosePidFile"
    /\ LocalOp("StartSshuttle", "failed to close temporary PID file")

\* s.ShellUtility.Run of the sshuttle command: a method call on a nil
\* interface when the utility is not set; else the command starts the
\* tunnel, fails, or runs into its timeout.
StartSshuttle ==
    /\ shPc = "StartSshuttle"
    /\ IF ~shellUtilitySet
       THEN /\ shPc' = "panicked"
            /\ UNCHANGED <<procs, sshuttleErr, localFailure, started, shRet,
                           tmpFiles>>
       ELSE \E outcome \in {"ok", "failed", "timeout"} :
              /\ sshuttleErr' = ShellRunError(outcome)
              /\ IF outcome = "ok"
                 THEN started' = NewPID /\ procs' = procs \cup {NewPID}
                 ELSE UNCHANGED <<started, procs>>
              /\ IF StartFailed(sshuttleErr')
                 THEN /\ RunStepReturn(shState,
                            TFError("Internal",
                                    "failed to start sshuttle command"))
                      /\ localFailure' = "failed to start sshuttle command"
                 ELSE /\ shPc' = "ReadPid"
                      /\ UNCHANGED <<shRet, tmpFiles, localFailure>>
    /\ UNCHANGED <<shellUtilitySet, commands, sshuttlePidFile, shState,
                   stopRet, preRuns, stageVars, terraformVars, vpcVars,
                   onpremVars, backendVars>>

\* After the 5 s sleep the PID file is read: the tunnel is up and its pid
\* is read and stored; or it is up and the read fails; or it has gone,
\* taking its PID file with it, and the read fails.  A failed read is
\* logged and RunStep returns success all the same.
ReadPidAndReturn ==
    /\ shPc = "ReadPid"
    /\ \/ /\ RunStepReturn([shState EXCEPT !.SshuttlePID = started], Nil)
          /\ UNCHANGED procs
       \/ /\ RunStepReturn(shState, Nil)
          /\ UNCHANGED procs
       \/ /\ procs' = procs \ {started}
          /\ shRet' = PhaseResult(shState, Nil)
          /\ shPc' = "RunReturned"
          /\ \E removed \in BOOLEAN :
                tmpFiles' = IF removed THEN {} ELSE {KeyFile}
    /\ UNCHANGED <<shellUtilitySet, commands, sshuttlePidFile, shState,
                   sshuttleErr, localFailure, started, stopRet, preRuns,
                   stageVars, terraformVars, vpcVars, onpremVars, backendVars>>

\* PostStep is handed the canonical runtime state (what RunStep returned,
\* if it returned no error) and returns it.
SshuttlePostStep ==
    /\ shPc = "RunReturned"
    /\ shState' = IF shRet.err = Nil THEN shRet.state ELSE shState
    /\ shRet' = PhaseResult(shState', Nil)
    /\ shPc' = "PostReturned"
    /\ UNCHANGED <<shellUtilitySet, commands, procs, sshuttlePidFile,
                   tmpFiles, sshuttleErr, localFailure, started, stopRet,
                   preRuns, stageVars, terraformVars, vpcVars, onpremVars,
                   backendVars>>

\* Faulty variant of StopResult: any failure of kill is an error, a
\* missing PID file included.
StopResultStrict(pid, killed) ==
    IF killed THEN Nil ELSE [failed |-> pid]

\* StopSshuttle: nil when /tmp/sshuttle.pid cannot be read, else the
\* result of "kill <pid>".
StopResult(pid, killed) ==
    IF pid = Empty THEN Nil
    ELSE IF killed THEN Nil ELSE [failed |-> pid]

\* kill fails on a process that does not exist and may fail on one that
\* does.
StopSshuttle ==
    /\ shPc = "PostReturned"
    /\ \E killed \in (IF sshuttlePidFile \in procs THEN BOOLEAN ELSE {FALSE}) :
          /\ stopRet' = StopResult(sshuttlePidFile, killed)
          /\ procs' = IF killed THEN procs \ {sshuttlePidFile} ELSE procs
    /\ shPc' = "done"
    /\ UNCHANGED <<shellUtilitySet, commands, sshuttlePidFile, shState,
                   tmpFiles, sshuttleErr, localFailure, started, shRet,
                   preRuns, stageVars, terraformVars, vpcVars, onpremVars,
                   backendVars>>

\* A step created on any machine: with or without a shell utility, the
\* commands that are installed, tunnels left running, a PID file left in
\* /tmp (naming a dead process or a running tunnel), any runtime state.
SshuttleCreated ==
    /\ shellUtilitySet \in BOOLEAN
    /\ commands \in SUBSET Tools
    /\ procs \in SUBSET StalePIDs
    /\ sshuttlePidFile \in {Empty, DeadPID, "101"}
    /\ shState \in SshuttleStates
    /\ shPc = "PreStep"
    /\ tmpFiles = {}
    /\ sshuttleErr = Nil
    /\ localFailure = Empty
    /\ started = Empty
    /\ shRet = Nil
    /\ stopRet = Nil
    /\ preRuns = 0

InitSshuttle ==
    /\ SshuttleCreated
    /\ StageIdle
    /\ TerraformIdle
    /\ VPCIdle
    /\ OnPremIdle
    /\ BackendIdle

NextSshuttle ==
    \/ SshuttlePreStep
    \/ CreateKeyFile
    \/ WriteKey
    \/ CloseKey
    \/ ChmodKey
    \/ CreatePidFile
    \/ ClosePidFile
    \/ StartSshuttle
    \/ ReadPidAndReturn
    \/ SshuttlePostStep
    \/ StopSshuttle

SpecSshuttle == InitSshuttle /\ [][NextSshuttle]_vars

---------------------------------------------------------------------------
(* The state bucket and the backend of the VPC step: the state-bucket      *)
(* step and ConfigStep of the VPC step work from the same configuration.   *)

\* The state-bucket step goes through its step functions on install and
\* leaves the bucket behind.
CreateStateBucket ==
    /\ config.Action = "install"
    /\ buckets = {}
    /\ buckets' = {[Region |-> config.Region,
                    Name |-> StateBucketName(config)]}
    /\ UNCHANGED <<config, backendConfig, stageVars, terraformVars, vpcVars,
                   sshuttleVars, onpremVars>>

InitBackend ==
    /\ VPCUnconfigured
    /\ config \in Configs
    /\ backendConfig = Nil
    /\ buckets = {}
    /\ StageIdle
    /\ TerraformIdle
    /\ SshuttleIdle
    /\ OnPremIdle

NextBackend ==
    \/ ConfigGetAvailableZones
    \/ ConfigSubnets
    \/ ConfigJumphost
    \/ CreateStateBucket

SpecBackend == InitBackend /\ [][NextBackend]_vars

---------------------------------------------------------------------------
(* Configure and Pre run a second time: ConfigStep of the VPC step and     *)
(* PreStep of the sshuttle step are called again, each with the runtime    *)
(* state its first, successful, call returned.                             *)

\* ConfigStep is entered again: s.variables is reset to its defaults (the
\* subnet maps are empty again) and the zones are looked up anew.
ConfigStepAgain ==
    /\ cfgPc = "done" /\ cfgRuns = 1
    /\ cfgRet.err = Nil
    /\ generated' = cfgRet.state
    /\ cfgRuns' = 2
    /\ cfgPc' = "ConfigStep"
    /\ zones' = 0
    /\ privateSubnets' = <<>>
    /\ publicSubnets' = <<>>
    /\ cfgRet' = Nil
    /\ UNCHANGED <<minimumMask, publicMask, stageVars, terraformVars,
                   sshuttleVars, onpremVars, backendVars>>

PreStepAgain ==
    /\ shPc = "PreReturned" /\ preRuns = 1
    /\ shRet.err = Nil
    /\ PreStepOn(shRet.state)
    /\ UNCHANGED <<stageVars, terraformVars, vpcVars, onpremVars, backendVars>>

InitRerun ==
    /\ VPCUnconfigured
    /\ SshuttleCreated
    /\ sshuttlePidFile = Empty
    /\ StageIdle
    /\ TerraformIdle
    /\ OnPremIdle
    /\ BackendUnconfigured

NextRerun ==
    \/ ConfigGetAvailableZones
    \/ ConfigSubnets
    \/ ConfigJumphost
    \/ ConfigStepAgain
    \/ SshuttlePreStep
    \/ PreStepAgain

SpecRerun == InitRerun /\ [][NextRerun]_vars

---------------------------------------------------------------------------
(* OnPrem.GeneratePassword: four required characters, the remaining ones,  *)
(* and a shuffle.  The character sets are cut down to a few characters of  *)
(* each kind and the number of remaining characters to RemainingChars.     *)

RemainingChars == 2

Lowercase == {"a", "b"}
Uppercase == {"A"}
Digits == {"0"}
Specials == {"!"}
AllChars == Lowercase \cup Uppercase \cup Digits \cup Specials

\* randomChars(charset, length): the strings it can return.
RandomChars(charset, length) == [1..length -> charset]

\* Faulty variant of Swap: r[i] is overwritten and r[j] is left as it was.
SwapOverwrite(rs, a, b) == [rs EXCEPT ![a] = rs[b]]

\* r[i], r[j] = r[j], r[i]
Swap(rs, a, b) == [rs EXCEPT ![a] = rs[b], ![b] = rs[a]]

\* How often character c occurs in string str.
Count(c, str) == Cardinality({n \in 1..Len(str) : str[n] = c})

\* Two strings made of the same characters, each as often.
IsPermutation(str, of) ==
    /\ Len(str) = Len(of)
    /\ \A c \in AllChars : Count(c, str) = Count(c, of)

Chars(str) == {str[n] : n \in 1..Len(str)}

\* lower, upper, digit and special, one character of each set.
RequiredChars ==
    /\ pwPc = "GeneratePassword"
    /\ \E lower \in RandomChars(Lowercase, 1),
          upper \in RandomChars(Uppercase, 1),
          digit \in RandomChars(Digits, 1),
          special \in RandomChars(Specials, 1) :
            password' = lower \o upper \o digit \o special
    /\ pwPc' = "remaining"
    /\ UNCHANGED <<runes, shuffleI, pwRet, waitVars, allowVars, stageVars,
                   terraformVars, vpcVars, sshuttleVars, backendVars>>

\* remaining, and password := lower + upper + digit + special + remaining.
RemainingAndConcat ==
    /\ pwPc = "remaining"
    /\ \E remaining \in RandomChars(AllChars, RemainingChars) :
            password' = password \o remaining
    /\ pwPc' = "shuffleString"
    /\ UNCHANGED <<runes, shuffleI, pwRet, waitVars, allowVars, stageVars,
                   terraformVars, vpcVars, sshuttleVars, backendVars>>

\* shuffleString is entered: r := []rune(input); i := len(r) - 1.
ShuffleStart ==
    /\ pwPc = "shuffleString"
    /\ runes' = password
    /\ shuffleI' = Len(password) - 1
    /\ pwPc' = "shuffle"
    /\ UNCHANGED <<password, pwRet, waitVars, allowVars, stageVars,
                   terraformVars, vpcVars, sshuttleVars, backendVars>>

\* One turn of the loop of shuffleString: j is drawn from 0..i and r[i] and
\* r[j] change places (the model counts positions from 1).
ShuffleSwap ==
    /\ pwPc = "shuffle"
    /\ shuffleI > 0
    /\ \E j \in 0..shuffleI : runes' = Swap(runes, shuffleI + 1, j + 1)
    /\ shuffleI' = shuffleI - 1
    /\ UNCHANGED <<pwPc, password, pwRet, waitVars, allowVars, stageVars,
                   terraformVars, vpcVars, sshuttleVars, backendVars>>

\* return shuffled, nil
ReturnShuffled ==
    /\ pwPc = "shuffle"
    /\ shuffleI = 0
    /\ pwRet' = [password |-> runes, err |-> Nil]
    /\ pwPc' = "returned"
    /\ UNCHANGED <<password, runes, shuffleI, waitVars, allowVars, stageVars,
                   terraformVars, vpcVars, sshuttleVars, backendVars>>

\* rand.Int fails: its error is dropped and num is nil, so num.Int64()
\* panics and GeneratePassword returns nothing.
RandFails ==
    /\ \/ pwPc \in {"GeneratePassword", "remaining"}
       \/ (pwPc = "shuffle" /\ shuffleI > 0)
    /\ pwPc' = "panicked"
    /\ UNCHANGED <<password, runes, shuffleI, pwRet, waitVars, allowVars,
                   stageVars, terraformVars, vpcVars, sshuttleVars,
                   backendVars>>

InitPassword ==
    /\ pwPc = "GeneratePassword"
    /\ password = <<>>
    /\ runes = <<>>
    /\ shuffleI = 0
    /\ pwRet = Nil
    /\ WaitIdle
    /\ AllowIdle
    /\ StageIdle
    /\ TerraformIdle
    /\ VPCIdle
    /\ SshuttleIdle
    /\ BackendIdle

NextPassword ==
    \/ RequiredChars
    \/ RemainingAndConcat
    \/ ShuffleStart
    \/ ShuffleSwap
    \/ ReturnShuffled
    \/ RandFails

SpecPassword == InitPassword /\ [][NextPassword]_vars

---------------------------------------------------------------------------
(* OnPrem.WaitForNamespaceCreation polls one namespace of the cluster.     *)
(* Strings that are trimmed are sequences of tokens or characters.         *)

orchNamespaceList ==
    {"onprem", "orch-boots", "orch-database", "orch-platform", "orch-app",
     "orch-cluster", "orch-infra", "orch-sre", "orch-ui", "orch-secret",
     "orch-gateway", "orch-harbor", "cattle-system"}

\* What the cluster can say of a namespace: it is not there, it has no
\* phase yet, it is Active, or it is being deleted.
Missing == "NotFound"
Phases == {"null", "Active", "Terminating"}

Whitespace == {" ", "\t", "\n", "\r"}

RECURSIVE TrimLeft(_)
TrimLeft(str) ==
    IF str # <<>> /\ Head(str) \in Whitespace THEN TrimLeft(Tail(str))
    ELSE str

RECURSIVE TrimRight(_)
TrimRight(str) ==
    IF str # <<>> /\ str[Len(str)] \in Whitespace
    THEN TrimRight(SubSeq(str, 1, Len(str) - 1))
    ELSE str

\* strings.TrimSpace
TrimSpace(str) == TrimRight(TrimLeft(str))

\* jq .status.phase -r: the phase and a newline.
JqOutput(phase) == <<phase, "\n">>

\* Faulty variant of PhaseActive: every phase ends the wait.
PhaseActiveAlways(phase) == TRUE

\* strings.TrimSpace(string(phase)) == "Active"
PhaseActive(phase) == TrimSpace(phase) = <<"Active">>

\* The error of a command that has failed.
ExitError(cmd) == [ErrorCode |-> "ExitError", ErrorMsg |-> cmd]

\* kubectl get ns namespace -o json: it fails when the namespace is not
\* there, and it may fail for any other reason.
WaitKubectl ==
    /\ wPc = "kubectl"
    /\ \/ /\ nsPhase # Missing
          /\ wOut' = nsPhase
          /\ wPc' = "jq"
          /\ UNCHANGED <<wFailed, wRet>>
       \/ /\ wFailed' = "kubectl"
          /\ wRet' = [err |-> ExitError("kubectl")]
          /\ wPc' = "returned"
          /\ UNCHANGED wOut
    /\ UNCHANGED <<wNamespace, nsPhase, activeSeen, passwordVars, allowVars,
                   stageVars, terraformVars, vpcVars, sshuttleVars,
                   backendVars>>

\* jq reads the phase out of kubectl's output, and the phase is compared
\* with Active: the loop is left and nil returned, or the function sleeps.
WaitJq ==
    /\ wPc = "jq"
    /\ \/ /\ activeSeen' = (activeSeen \/ wOut = "Active")
          /\ IF PhaseActive(JqOutput(wOut))
             THEN wRet' = [err |-> Nil] /\ wPc' = "returned"
             ELSE wPc' = "Sleep" /\ UNCHANGED wRet
          /\ UNCHANGED wFailed
       \/ /\ wFailed' = "jq"
          /\ wRet' = [err |-> ExitError("jq")]
          /\ wPc' = "returned"
          /\ UNCHANGED activeSeen
    /\ UNCHANGED <<wNamespace, nsPhase, wOut, passwordVars, allowVars,
                   stageVars, terraformVars, vpcVars, sshuttleVars,
                   backendVars>>

\* time.Sleep(5 * time.Second), and the next poll.
WaitSleep ==
    /\ wPc = "Sleep"
    /\ wPc' = "kubectl"
    /\ UNCHANGED <<wNamespace, nsPhase, wOut, activeSeen, wFailed, wRet,
                   passwordVars, allowVars, stageVars, terraformVars,
                   vpcVars, sshuttleVars, backendVars>>

\* The cluster, meanwhile: a namespace is created, gets its phase, and one
\* that is being deleted goes away.  Nothing deletes a namespace while the
\* installer waits for it.
NamespaceChanges ==
    /\ nsPhase # "Active"
    /\ nsPhase' = CASE nsPhase = Missing -> "Active"
                    [] nsPhase = "null" -> "Active"
                    [] nsPhase = "Terminating" -> Missing
    /\ UNCHANGED <<wNamespace, wPc, wOut, activeSeen, wFailed, wRet,
                   passwordVars, allowVars, stageVars, terraformVars,
                   vpcVars, sshuttleVars, backendVars>>

InitWait ==
    /\ wNamespace \in orchNamespaceList
    /\ nsPhase \in Phases \cup {Missing}
    /\ wPc = "kubectl"
    /\ wOut = Empty
    /\ activeSeen = FALSE
    /\ wFailed = Empty
    /\ wRet = Nil
    /\ PasswordIdle
    /\ AllowIdle
    /\ StageIdle
    /\ TerraformIdle
    /\ VPCIdle
    /\ SshuttleIdle
    /\ BackendIdle

NextWait ==
    \/ WaitKubectl
    \/ WaitJq
    \/ WaitSleep
    \/ NamespaceChanges

\* The function keeps running: each of its steps is taken when it is due.
SpecWait ==
    /\ InitWait
    /\ [][NextWait]_vars
    /\ WF_vars(WaitKubectl)
    /\ WF_vars(WaitJq)
    /\ WF_vars(WaitSleep)

---------------------------------------------------------------------------
(* OnPrem.AllowConfigInRuntime: the prompts of the on-prem installer.      *)
(* Lines read from the terminal are sequences of characters.               *)

EnvNames ==
    {"ASSUME_YES", "DOCKER_USERNAME", "DOCKER_PASSWORD", "ARGO_IP",
     "TRAEFIK_IP", "NGINX_IP", "PROCEED"}

\* An environment variable that is not set, os.Setenv, os.Unsetenv and
\* os.Getenv (the empty string for a variable that is not set).
Unset == [set |-> FALSE, value |-> <<>>]
Setenv(e, name, v) == [e EXCEPT ![name] = [set |-> TRUE, value |-> v]]
Unsetenv(e, names) == [n \in EnvNames |-> IF n \in names THEN Unset ELSE e[n]]
Getenv(e, name) == e[name].value

IPEnvNames == {"ARGO_IP", "TRAEFIK_IP", "NGINX_IP"}
DockerEnvNames == {"DOCKER_USERNAME", "DOCKER_PASSWORD"}

\* strings.ToLower, for the letters the answers are written with.
LowerOf(c) ==
    CASE c = "Y" -> "y"
      [] c = "E" -> "e"
      [] c = "S" -> "s"
      [] c = "N" -> "n"
      [] c = "O" -> "o"
      [] OTHER -> c

ToLower(str) == [n \in 1..Len(str) |-> LowerOf(str[n])]

\* case "y", "yes" and case "n", "no"
YesAnswers == {<<"y">>, <<"y", "e", "s">>}
NoAnswers == {<<"n">>, <<"n", "o">>}

\* What may be typed at a yes/no prompt.
YesNoLines ==
    {<<"y", "\n">>, <<" ", "Y", "E", "S", "\n">>, <<"n", "\n">>,
     <<"N", "o", " ", "\n">>, <<"m", "\n">>, <<"\n">>}

\* What may be typed as a user name or password.
CredentialLines == {<<"u", "\n">>, <<"\n">>}

\* What may be typed as an address: two addresses, three groups only, an
\* address with a mask, a group of four digits, nothing.
IPLines ==
    {<<"1", ".", "2", ".", "3", ".", "4", "\n">>,
     <<" ", "1", "0", ".", "0", ".", "0", ".", "2", "5", "5", "\n">>,
     <<"1", ".", "2", ".", "3", "\n">>,
     <<"1", ".", "2", ".", "3", ".", "4", "/", "8", "\n">>,
     <<"1", "0", "0", "0", ".", "2", ".", "3", ".", "4", "\n">>,
     <<"\n">>}

\* The values the environment may hold when the function is entered.
TrueText == <<"t", "r", "u", "e">>
InitialEnvs ==
    {e \in [EnvNames -> {Unset, [set |-> TRUE, value |-> TrueText],
                         [set |-> TRUE, value |-> <<"u">>]}] :
        /\ \A n \in IPEnvNames : e[n] = Unset
        /\ e["PROCEED"].value # <<"u">>}

DecimalDigits == {"0", "1", "2", "3", "4", "5", "6", "7", "8", "9"}

\* The groups of str between its dots.
RECURSIVE SplitDot(_)
SplitDot(str) ==
    IF \A n \in 1..Len(str) : str[n] # "."
    THEN <<str>>
    ELSE LET k == CHOOSE n \in 1..Len(str) :
                      /\ str[n] = "."
                      /\ \A m \in 1..(n - 1) : str[m] # "."
         IN  <<SubSeq(str, 1, k - 1)>>
                 \o SplitDot(SubSeq(str, k + 1, Len(str)))

\* ipRegex.MatchString: ^\d{1,3}(\.\d{1,3}){3}$, four groups of one to
\* three digits with dots between them and nothing else.
MatchIP(str) ==
    LET groups == SplitDot(str)
    IN  /\ Len(groups) = 4
        /\ \A g \in 1..4 :
              /\ Len(groups[g]) \in 1..3
              /\ \A n \in 1..Len(groups[g]) : groups[g][n] \in DecimalDigits

\* Faulty variant of IPsValid: only the Argo address is looked at.
IPsValidArgoOnly(argo, traefik, nginx) == MatchIP(argo)

\* ipRegex.MatchString(argoIP) && ipRegex.MatchString(traefikIP) &&
\* ipRegex.MatchString(nginxIP)
IPsValid(argo, traefik, nginx) ==
    MatchIP(argo) /\ MatchIP(traefik) /\ MatchIP(nginx)

\* if _, err := os.Stat(configRepoPath); err == nil, and the answer
\* ASSUME_YES gives.
StatConfig ==
    /\ acPc = "Stat"
    /\ IF configExists
       THEN IF assumeYes
            THEN acRet' = [err |-> Nil] /\ acPc' = "returned"
            ELSE acPc' = "OverwritePrompt" /\ UNCHANGED acRet
       ELSE acPc' = "Extract" /\ UNCHANGED acRet
    /\ UNCHANGED <<assumeYes, configExists, answer, env, dockerUsername,
                   dockerPassword, argoIP, traefikIP, nginxIP, passwordVars,
                   waitVars, stageVars, terraformVars, vpcVars,
                   sshuttleVars, backendVars>>

\* One turn of the overwrite prompt.  The break of case "y", "yes" ends
\* the switch statement, not the for loop around it: the loop goes on.
OverwritePrompt ==
    /\ acPc = "OverwritePrompt"
    /\ \E line \in YesNoLines :
          LET yn == ToLower(TrimSpace(line))
          IN  /\ answer' = yn
              /\ CASE yn \in YesAnswers ->
                        /\ configExists' = FALSE
                        /\ UNCHANGED <<acPc, acRet>>
                   [] yn \in NoAnswers ->
                        /\ acRet' = [err |-> Nil]
                        /\ acPc' = "returned"
                        /\ UNCHANGED configExists
                   [] OTHER -> UNCHANGED <<acPc, acRet, configExists>>
    /\ UNCHANGED <<assumeYes, env, dockerUsername, dockerPassword, argoIP,
                   traefikIP, nginxIP, passwordVars, waitVars, stageVars,
                   terraformVars, vpcVars, sshuttleVars, backendVars>>

\* The temporary directory is emptied and the archive unpacked into it;
\* the Docker credentials are read from the environment.
Extract ==
    /\ acPc = "Extract"
    /\ \/ /\ configExists' = TRUE
          /\ dockerUsername' = Getenv(env, "DOCKER_USERNAME")
          /\ dockerPassword' = Getenv(env, "DOCKER_PASSWORD")
          /\ acPc' = "DockerPrompt"
          /\ UNCHANGED acRet
       \/ /\ configExists' = FALSE
          /\ acRet' = [err |-> ExitError("tar")]
          /\ acPc' = "returned"
          /\ UNCHANGED <<dockerUsername, dockerPassword>>
    /\ UNCHANGED <<assumeYes, answer, env, argoIP, traefikIP, nginxIP,
                   passwordVars, waitVars, stageVars, terraformVars,
                   vpcVars, sshuttleVars, backendVars>>

\* One turn of the Docker credentials loop.
DockerPrompt ==
    /\ acPc = "DockerPrompt"
    /\ IF dockerUsername = <<>> /\ dockerPassword = <<>>
       THEN \E line \in YesNoLines :
              LET yn == TrimSpace(line)
              IN  CASE ToLower(yn) = <<"y">> \/ yn = <<>> ->
                         \E u \in CredentialLines, pw \in CredentialLines :
                            /\ dockerUsername' = TrimSpace(u)
                            /\ dockerPassword' = TrimSpace(pw)
                            /\ env' = Setenv(Setenv(env, "DOCKER_USERNAME",
                                                    TrimSpace(u)),
                                             "DOCKER_PASSWORD", TrimSpace(pw))
                            /\ acPc' = "DockerCheck"
                    [] ToLower(yn) = <<"n">> ->
                         /\ env' = Unsetenv(env, DockerEnvNames)
                         /\ acPc' = "DockerCheck"
                         /\ UNCHANGED <<dockerUsername, dockerPassword>>
                    [] OTHER ->
                         UNCHANGED <<acPc, env, dockerUsername,
                                     dockerPassword>>
       ELSE /\ env' = Setenv(Setenv(env, "DOCKER_USERNAME", dockerUsername),
                             "DOCKER_PASSWORD", dockerPassword)
            /\ acPc' = "DockerCheck"
            /\ UNCHANGED <<dockerUsername, dockerPassword>>
    /\ UNCHANGED <<assumeYes, configExists, answer, argoIP, traefikIP,
                   nginxIP, acRet, passwordVars, waitVars, stageVars,
                   terraformVars, vpcVars, sshuttleVars, backendVars>>

\* Credentials of which one is empty are dropped.
DockerCheck ==
    /\ acPc = "DockerCheck"
    /\ env' = IF dockerUsername # <<>> /\ dockerPassword # <<>>
              THEN env
              ELSE Unsetenv(env, DockerEnvNames)
    /\ acPc' = "EnterArgoIP"
    /\ UNCHANGED <<assumeYes, configExists, answer, dockerUsername,
                   dockerPassword, argoIP, traefikIP, nginxIP, acRet,
                   passwordVars, waitVars, stageVars, terraformVars,
                   vpcVars, sshuttleVars, backendVars>>

\* if argoIP == "" { read, trim, os.Setenv("ARGO_IP", argoIP) }
EnterArgoIP ==
    /\ acPc = "EnterArgoIP"
    /\ IF argoIP = <<>>
       THEN \E line \in IPLines :
               /\ argoIP' = TrimSpace(line)
               /\ env' = Setenv(env, "ARGO_IP", TrimSpace(line))
       ELSE UNCHANGED <<argoIP, env>>
    /\ acPc' = "EnterTraefikIP"
    /\ UNCHANGED <<assumeYes, configExists, answer, dockerUsername,
                   dockerPassword, traefikIP, nginxIP, acRet, passwordVars,
                   waitVars, stageVars, terraformVars, vpcVars,
                   sshuttleVars, backendVars>>

\* if traefikIP == "" { read, trim, os.Setenv("TRAEFIK_IP", traefikIP) }
EnterTraefikIP ==
    /\ acPc = "EnterTraefikIP"
    /\ IF traefikIP = <<>>
       THEN \E line \in IPLines :
               /\ traefikIP' = TrimSpace(line)
               /\ env' = Setenv(env, "TRAEFIK_IP", TrimSpace(line))
       ELSE UNCHANGED <<traefikIP, env>>
    /\ acPc' = "EnterNginxIP"
    /\ UNCHANGED <<assumeYes, configExists, answer, dockerUsername,
                   dockerPassword, argoIP, nginxIP, acRet, passwordVars,
                   waitVars, stageVars, terraformVars, vpcVars,
                   sshuttleVars, backendVars>>

\* if nginxIP == "" { read, trim, os.Setenv("NGINX_IP", nginxIP) }
EnterNginxIP ==
    /\ acPc = "EnterNginxIP"
    /\ IF nginxIP = <<>>
       THEN \E line \in IPLines :
               /\ nginxIP' = TrimSpace(line)
               /\ env' = Setenv(env, "NGINX_IP", TrimSpace(line))
       ELSE UNCHANGED <<nginxIP, env>>
    /\ acPc' = "ValidateIPs"
    /\ UNCHANGED <<assumeYes, configExists, answer, dockerUsername,
                   dockerPassword, argoIP, traefikIP, acRet, passwordVars,
                   waitVars, stageVars, terraformVars, vpcVars,
                   sshuttleVars, backendVars>>

\* The three values are matched against the pattern: the loop is left,
\* or the values are cleared, the variables unset and the loop goes round.
ValidateIPs ==
    /\ acPc = "ValidateIPs"
    /\ IF IPsValid(argoIP, traefikIP, nginxIP)
       THEN /\ acPc' = "ProceedPrompt"
            /\ UNCHANGED <<argoIP, traefikIP, nginxIP, env>>
       ELSE /\ argoIP' = <<>>
            /\ traefikIP' = <<>>
            /\ nginxIP' = <<>>
            /\ env' = Unsetenv(env, IPEnvNames)
            /\ acPc' = "EnterArgoIP"
    /\ UNCHANGED <<assumeYes, configExists, answer, dockerUsername,
                   dockerPassword, acRet, passwordVars, waitVars, stageVars,
                   terraformVars, vpcVars, sshuttleVars, backendVars>>

\* One turn of the last loop: PROCEED or the answer yes ends it and the
\* function returns nil; the answer no ends the process.
ProceedPrompt ==
    /\ acPc = "ProceedPrompt"
    /\ IF Getenv(env, "PROCEED") # <<>>
       THEN acRet' = [err |-> Nil] /\ acPc' = "returned"
       ELSE \E line \in YesNoLines :
              LET yn == ToLower(TrimSpace(line))
              IN  CASE yn \in YesAnswers ->
                         acRet' = [err |-> Nil] /\ acPc' = "returned"
                    [] yn \in NoAnswers ->
                         acPc' = "exited" /\ UNCHANGED acRet
                    [] OTHER -> UNCHANGED <<acPc, acRet>>
    /\ UNCHANGED <<assumeYes, configExists, answer, env, dockerUsername,
                   dockerPassword, argoIP, traefikIP, nginxIP, passwordVars,
                   waitVars, stageVars, terraformVars, vpcVars,
                   sshuttleVars, backendVars>>

InitAllow ==
    /\ acPc = "Stat"
    /\ env \in InitialEnvs
    /\ assumeYes = (Getenv(env, "ASSUME_YES") = TrueText)
    /\ configExists \in BOOLEAN
    /\ answer = <<>>
    /\ dockerUsername = <<>>
    /\ dockerPassword = <<>>
    /\ argoIP = <<>>
    /\ traefikIP = <<>>
    /\ nginxIP = <<>>
    /\ acRet = Nil
    /\ PasswordIdle
    /\ WaitIdle
    /\ StageIdle
    /\ TerraformIdle
    /\ VPCIdle
    /\ SshuttleIdle
    /\ BackendIdle

NextAllow ==
    \/ StatConfig
    \/ OverwritePrompt
    \/ Extract
    \/ DockerPrompt
    \/ DockerCheck
    \/ EnterArgoIP
    \/ EnterTraefikIP
    \/ EnterNginxIP
    \/ ValidateIPs
    \/ ProceedPrompt

SpecAllow == InitAllow /\ [][NextAllow]_vars

---------------------------------------------------------------------------
(* What the call log says *)

\* The operations a pass calls on its steps.
OpsOf(p) ==
    CASE p = "PreStage" -> {"ConfigStep", "PreStep"}
      [] p = "RunStage" -> {"RunStep"}
      [] p = "PostStage" -> {"PostStep"}
      [] OTHER -> {}

\* The step indices on which the pass in progress has called op, in the
\* order of the calls.
CalledOn(op) ==
    LET sel == SelectSeq(calls, LAMBDA c : c.op = op)
    IN  [n \in 1..Len(sel) |-> sel[n].idx]

Called(op, k) ==
    \E n \in 1..Len(calls) : calls[n].op = op /\ calls[n].idx = k

\* The error call n produced: the step's own, else the merge's, else Nil.
ErrorOf(n) ==
    IF calls[n].err # Nil THEN calls[n].err ELSE calls[n].mergeErr

\* Step k failed in this pass: one of its operations, or the merge after
\* it, returned an error.
Failed(k) ==
    \E n \in 1..Len(calls) : calls[n].idx = k /\ ErrorOf(n) # Nil

\* The last error operation op of step k produced in this pass (Nil if
\* it produced none or was not called).
ErrorFrom(op, k) ==
    IF \E n \in 1..Len(calls) :
          calls[n].op = op /\ calls[n].idx = k /\ ErrorOf(n) # Nil
    THEN ErrorOf(CHOOSE n \in 1..Len(calls) :
                    calls[n].op = op /\ calls[n].idx = k /\ ErrorOf(n) # Nil)
    ELSE Nil

\* Slot k of what the pass returned (a nil aggregate has no failed slot).
Slot(agg, k) ==
    IF agg = NilStageError THEN Nil ELSE agg.StepErrors[k]

\* The pass has ended: it returned, or the process panicked inside it.
Ended == pc \in {"returned", "panicked"}

\* A pass that returned has called its operation(s) on every step once, in
\* list order: no loop body leaves the loop early.
NoShortCircuit ==
    pc = "returned" =>
        \A op \in OpsOf(pass) : CalledOn(op) = [k \in 1..steps |-> k]

\* What a pass returns is nil exactly when no step operation and no merge
\* failed in it.
ReturnedNilIffNoFailure ==
    pc = "returned" =>
        ((ret = NilStageError) <=> (\A k \in 1..steps : ~Failed(k)))

\* Every PostStep call PostStage made was handed the slot of its own step.
PostStepPrevIsOwnSlot ==
    \A n \in 1..Len(calls) :
        calls[n].op = "PostStep" =>
            /\ prevStageError # NilStageError
            /\ calls[n].prev = prevStageError.StepErrors[calls[n].idx]

---------------------------------------------------------------------------
(* Claims *)

\* C1: for a step list of any length N, each of PreStage, RunStage and
\* PostStage has, when it ends, called its operation(s) on every step
\* exactly once and in list order, whatever errors the steps returned.
\* Violated: PostStage handed a nil aggregate ends in a panic before the
\* first PostStep.
C1_EveryStepCalledOnceInOrder ==
    Ended =>
        \A op \in OpsOf(pass) : CalledOn(op) = [k \in 1..steps |-> k]

\* C2: when a step fails in a pass, the aggregate the pass returns has N
\* slots, a non-nil error (that step's) exactly at the failing indices and
\* nil at the others, and every step of the list was still executed.
C2_FailuresRecordedPositionally ==
    (pc = "returned" /\ \E k \in 1..steps : Failed(k)) =>
        /\ ret # NilStageError
        /\ DOMAIN ret.StepErrors = 1..steps
        /\ \A k \in 1..steps :
              /\ (ret.StepErrors[k] # Nil) <=> Failed(k)
              /\ ret.StepErrors[k] # Nil => ret.StepErrors[k].ErrorMsg[3] = k
        /\ \A op \in OpsOf(pass), k \in 1..steps : Called(op, k)

C2_Witness ==
    /\ pass = "RunStage" /\ pc = "returned" /\ steps >= 2
    /\ Failed(1) /\ ~Failed(2) /\ Called("RunStep", 2)
    /\ ret # NilStageError

\* C3: a pass returns nil exactly when no step operation and no merge
\* failed in it; with an empty step list every pass returns nil.
\* Violated: PostStage handed a nil aggregate panics although nothing
\* failed in it, instead of returning nil.
C3_NilIffNoFailure ==
    Ended =>
        /\ (pc = "returned" /\ ret = NilStageError)
              <=> (\A k \in 1..steps : ~Failed(k))
        /\ steps = 0 => (pc = "returned" /\ ret = NilStageError)

\* C4: PostStage calls PostStep of every step k with slot k of the
\* triggering pass's aggregate as the previous error: nil for a step that
\* succeeded there, and never another step's error.
\* Violated: when every step of the triggering pass succeeded the
\* aggregate is nil, and PostStage panics instead of calling any step.
C4_PostStepGetsOwnSlot ==
    (pass = "PostStage" /\ Ended) =>
        \A k \in 1..steps :
            \E n \in 1..Len(calls) :
                /\ calls[n].op = "PostStep" /\ calls[n].idx = k
                /\ calls[n].prev = Slot(prevStageError, k)

\* C5: PostStage handed a nil aggregate (the triggering pass succeeded)
\* completes, having called PostStep of every step with a nil previous
\* error.
C5_NilAggregateStillFinalizes ==
    (pass = "PostStage" /\ prevStageError = NilStageError /\ Ended) =>
        /\ pc = "returned"
        /\ Len(calls) = steps
        /\ \A n \in 1..Len(calls) : calls[n].prev = Nil

\* C6: when a step operation returns an error, the runtime state it
\* returned with it is not merged: the canonical state is what it was
\* before the call.
C6_FailedStepNotMerged ==
    (Len(calls) > 0 /\ calls[Len(calls)].err # Nil) =>
        runtimeState = last.snapshot

C6_Witness ==
    /\ Len(calls) > 0
    /\ calls[Len(calls)].op = "RunStep" /\ calls[Len(calls)].err # Nil
    /\ last.snapshot["VpcId"] = Empty /\ last.returned["VpcId"] # Empty
    /\ runtimeState["VpcId"] = Empty

\* C7: the merge of a step's returned state is complete before the next
\* step operation is called: the canonical state holds every field
\* committed so far in the pass, and the snapshot handed to a step is the
\* canonical state, holding every field the earlier steps committed.
C7_MergeBeforeNextStep ==
    [][ /\ \A w \in written' : runtimeState'[w[1]] = w[2]
        /\ Len(calls') = Len(calls) + 1 =>
              /\ last'.snapshot = runtimeState
              /\ \A w \in written : last'.snapshot[w[1]] = w[2] ]_vars

C7_Witness ==
    /\ pass = "RunStage" /\ Len(calls) = 2
    /\ <<"VpcId", "v1">> \in written
    /\ last.snapshot["VpcId"] = "v1"
    /\ calls[1].idx = 1 /\ calls[2].idx = 2

\* C8 as claimed: in PreStage no PreStep is called before the ConfigStep
\* of every step of the list has been called.
C8_AllConfigBeforeAnyPre ==
    (pass = "PreStage" /\ \E k \in 1..steps : Called("PreStep", k)) =>
        \A k \in 1..steps : Called("ConfigStep", k)

\* C8 as amended: PreStage calls, step by step in list order, ConfigStep
\* of a step and then PreStep of that same step: the PreStep of step k
\* comes after the ConfigStep of steps 1..k and before the ConfigStep of
\* every later step.
C8_ConfigThenPrePerStep ==
    pass = "PreStage" =>
        /\ \A n \in 1..Len(calls) :
              /\ calls[n].idx = (n + 1) \div 2
              /\ calls[n].op = IF n % 2 = 1 THEN "ConfigStep" ELSE "PreStep"
        /\ pc = "returned" => Len(calls) = 2 * steps

C8_Witness ==
    /\ pass = "PreStage" /\ steps >= 2 /\ Len(calls) = 3
    /\ calls[2].op = "PreStep" /\ calls[2].idx = 1
    /\ calls[3].op = "ConfigStep" /\ calls[3].idx = 2

\* C9: PreStage calls PreStep also for a step whose ConfigStep failed, and
\* slot k of the aggregate it returns is the PreStep error (or its merge's)
\* if there is one, else the ConfigStep error (or its merge's), else nil.
C9_LastFailureWins ==
    (pass = "PreStage" /\ pc = "returned") =>
        \A k \in 1..steps :
            /\ Called("PreStep", k)
            /\ Slot(ret, k) = IF ErrorFrom("PreStep", k) # Nil
                              THEN ErrorFrom("PreStep", k)
                              ELSE ErrorFrom("ConfigStep", k)

C9_Witness ==
    /\ pass = "PreStage" /\ pc = "returned" /\ steps >= 2
    /\ ErrorFrom("ConfigStep", 1) # Nil /\ ErrorFrom("PreStep", 1) # Nil
    /\ ErrorFrom("ConfigStep", 2) # Nil /\ ErrorFrom("PreStep", 2) = Nil
    /\ Called("PreStep", 2)

\* C10: when a step operation succeeds and the merge of its returned state
\* fails, the merge error is recorded at the step's index (it is the slot
\* of the returned aggregate unless a later operation of the same step
\* failed too and replaced it), the pass returns a non-nil aggregate and
\* the remaining steps are still executed.
C10_MergeErrorRecorded ==
    /\ \A n \in 1..Len(calls) :
          (calls[n].err = Nil /\ calls[n].mergeErr # Nil) =>
              /\ containsError
              /\ stepErrors[calls[n].idx] # Nil
              /\ (\A m \in (n + 1)..Len(calls) :
                     calls[m].idx = calls[n].idx => ErrorOf(m) = Nil)
                 => stepErrors[calls[n].idx] = calls[n].mergeErr
              /\ pc = "returned" =>
                    /\ ret # NilStageError
                    /\ ret.StepErrors = stepErrors
                    /\ \A op \in OpsOf(pass), k \in 1..steps : Called(op, k)

C10_Witness ==
    /\ pass = "RunStage" /\ pc = "returned" /\ steps >= 2
    /\ calls[1].err = Nil /\ calls[1].mergeErr # Nil
    /\ Called("RunStep", 2)
    /\ ret # NilStageError /\ ret.StepErrors[1] = calls[1].mergeErr

\* C11: when two steps of a pass succeed and write different fields, the
\* canonical state after the pass holds both values whichever of the two
\* ran first, and a field no step wrote keeps the value it had: at every
\* step of a pass a field committed in the pass holds the committed value
\* and every other field is left as it was.
C11_DisjointWritesBothKept ==
    [][ \A f \in Fields :
            IF \E v \in Values : <<f, v>> \in written'
            THEN <<f, runtimeState'[f]>> \in written'
            ELSE runtimeState'[f] = runtimeState[f] ]_vars

C11_Witness ==
    /\ pass = "RunStage" /\ pc = "returned" /\ steps = 2
    /\ calls[1].idx = 1 /\ calls[2].idx = 2
    /\ written = {<<"SshuttlePID", "v2">>, <<"VpcId", "v1">>}
    /\ last.snapshot = [VpcId |-> Empty, SshuttlePID |-> "v2"]
    /\ runtimeState = [VpcId |-> "v1", SshuttlePID |-> "v2"]

\* C12: when a step succeeds and the state it returns sets a field that
\* already holds a different value, the merge reports the conflict: the
\* error is recorded at the step's index, the pass is marked failed and
\* the canonical state keeps the value it held.
C12_ConflictDetected ==
    (/\ Len(calls) > 0
     /\ calls[Len(calls)].err = Nil
     /\ Conflict(last.snapshot, last.returned)) =>
        /\ calls[Len(calls)].mergeErr # Nil
        /\ stepErrors[calls[Len(calls)].idx] = calls[Len(calls)].mergeErr
        /\ containsError
        /\ runtimeState = last.snapshot

C12_Witness ==
    /\ pass = "RunStage" /\ Len(calls) = 2
    /\ calls[2].err = Nil /\ calls[2].idx = 2
    /\ last.snapshot["VpcId"] = "v1" /\ last.returned["VpcId"] = "v2"
    /\ <<"VpcId", "v1">> \in written
    /\ stepErrors[2] = MergeError("RunStep", 2)
    /\ runtimeState["VpcId"] = "v1"

\* C13: a step the label filter does not select is executed in no pass
\* and still has its slot: none of its operations is called and its slot
\* of the returned aggregate is nil.
\* Violated: the passes range over the whole step list and never consult
\* Labels(); an unselected step is called like any other and its failure
\* fills its slot.
C13_UnselectedStepNotExecuted ==
    \A k \in (1..steps) \ selected :
        /\ \A n \in 1..Len(calls) : calls[n].idx # k
        /\ pc = "returned" => Slot(ret, k) = Nil

\* The sub-steps of Run the claims name: writing the variables and the
\* backend file, initializing, applying or destroying, reading the
\* outputs (by the message of the error Run returns for each).
NamedSubStepFailures ==
    {"failed to write variables file", "failed to write backend config file",
     "failed to create terraform instance", "failed to apply terraform config",
     "failed to destroy terraform config",
     "failed to retrieve terraform output"}

\* Holds: when every sub-step before the dispatch succeeds, Run itself
\* rejects an Action it does not know with InvalidArgument.
RunRejectsUnsupportedAction ==
    (tfPc \in {"RunReturned", "done"} /\ ~AppliesOn(tfAction)
     /\ ~DestroysOn(tfAction)) =>
        /\ tfRet.err # Nil
        /\ tfRet.err.ErrorMsg = "unsupported action"
              => tfRet.err.ErrorCode = "InvalidArgument"
        /\ CallsOf("Apply") + CallsOf("Destroy") + CallsOf("Output") = 0

\* The errors Run returns before it gets to look at the Action.
FailuresBeforeDispatch ==
    {"failed to create environments directory", "failed to marshal variables",
     "failed to write variables file", "failed to marshal backend config",
     "failed to write backend config file",
     "failed to create terraform instance",
     "failed to create file log writer"}

\* Run has got past the dispatch on the Action.
PastDispatch ==
    \/ tfPc \in {"Output", "Cleanup"}
    \/ /\ tfPc \in {"RunReturned", "done"}
       /\ tfRet.err # Nil => tfRet.err.ErrorMsg \notin FailuresBeforeDispatch

\* C14: for Action install or upgrade Run applies and never destroys, for
\* uninstall it destroys and never applies: the other operation is never
\* called, and once Run is past the dispatch the operation of the Action
\* has been called exactly once.
C14_ApplyOrDestroyByAction ==
    /\ tfAction \in {"install", "upgrade"} =>
          /\ CallsOf("Destroy") = 0
          /\ PastDispatch => CallsOf("Apply") = 1
    /\ tfAction = "uninstall" =>
          /\ CallsOf("Apply") = 0
          /\ PastDispatch => CallsOf("Destroy") = 1

C14_Witness ==
    /\ tfAction = "upgrade" /\ tfPc = "RunReturned" /\ tfRet.err = Nil
    /\ tfCalls = <<"Init", "Apply", "Output">>

\* C15: for an Action other than install, upgrade and uninstall, RunStep
\* of the VPC step returns an error whose code is InvalidArgument.
\* Violated: RunStep re-wraps every error of the utility with the
\* Terraform code, the utility's InvalidArgument included.
C15_UnsupportedActionInvalidArgument ==
    (tfPc = "done" /\ tfAction \notin {"install", "upgrade", "uninstall"}) =>
        /\ stepRet.err # Nil
        /\ stepRet.err.ErrorCode = "InvalidArgument"

\* C16: for an Action other than install, upgrade and uninstall, Run makes
\* no call to the Terraform executable (initialize, apply, destroy, read
\* outputs) before it returns the failure.
\* Violated: the Action is looked at only after the files are written and
\* tf.Init has run.
C16_UnsupportedActionNoExternalCall ==
    tfAction \notin {"install", "upgrade", "uninstall"} => tfCalls = <<>>

\* C17: a failure of a sub-step of the Terraform invocation (writing the
\* variables or the backend file, initializing, applying or destroying,
\* reading the outputs) comes out of RunStep as one error with the
\* Terraform code, which carries the sub-step's error as its cause, and
\* with no runtime-state field written.
C17_SubStepFailureIsTerraformError ==
    (/\ tfPc = "done"
     /\ tfRet.err # Nil
     /\ tfRet.err.ErrorMsg \in NamedSubStepFailures) =>
        /\ stepRet.err # Nil
        /\ stepRet.err.ErrorCode = "Terraform"
        /\ stepRet.err.ErrorMsg = <<"failed to run terraform", tfRet.err>>
        /\ stepRet.wrote = {}

C17_Witness ==
    /\ tfPc = "done"
    /\ tfRet.err = TFError("Internal", "failed to write variables file")
    /\ stepRet.err.ErrorCode = "Terraform"
    /\ tfCalls = <<>>

\* C18 as claimed: after a successful Run neither generated file exists
\* when KeepGeneratedFiles is false, and both exist when it is true.
C18_GeneratedFilesRemovedOrKept ==
    RunSucceeded =>
        IF keepGeneratedFiles THEN GeneratedFiles \subseteq files
                              ELSE files \cap GeneratedFiles = {}

\* C18 as amended: after a successful Run both generated files exist when
\* KeepGeneratedFiles is true; when it is false the generated files that
\* still exist are exactly those whose removal failed (a failure that is
\* only logged).
C18_GeneratedFilesRemovedUnlessRemoveFails ==
    RunSucceeded =>
        IF keepGeneratedFiles THEN GeneratedFiles \subseteq files
                              ELSE files \cap GeneratedFiles = removeFailed

C18_Witness ==
    /\ RunSucceeded /\ tfPc = "done"
    /\ ~keepGeneratedFiles
    /\ removeFailed = {}
    /\ files = {}
    /\ tfCalls = <<"Init", "Apply", "Output">>

\* C19: on the CIDR block 10.250.0.0/16 with 3 availability zones
\* ConfigStep lays out exactly 3 private subnets, each a /20, with
\* strictly increasing bases and no overlap, and exactly 3 public subnets
\* of the public mask size, which start after the private block and
\* overlap neither one another nor a private subnet.
C19_SubnetLayout ==
    SubnetsComputed =>
        /\ Len(privateSubnets) = 3 /\ Len(publicSubnets) = 3
        /\ \A n \in 1..3 :
              /\ privateSubnets[n].mask = 20
              /\ publicSubnets[n].mask = publicMask
              /\ FirstAddress(privateSubnets[n]) =
                    IPv4ToInt(privateSubnets[n].ip)
              /\ Below(LastAddress(privateSubnets[3]),
                       IPv4ToInt(publicSubnets[n].ip))
        /\ \A n \in 1..2 :
              /\ Below(IPv4ToInt(privateSubnets[n].ip),
                       IPv4ToInt(privateSubnets[n + 1].ip))
              /\ Below(IPv4ToInt(publicSubnets[n].ip),
                       IPv4ToInt(publicSubnets[n + 1].ip))
        /\ \A n, m \in 1..3 :
              /\ n # m => ~Overlap(privateSubnets[n], privateSubnets[m])
              /\ n # m => ~Overlap(publicSubnets[n], publicSubnets[m])
              /\ ~Overlap(privateSubnets[n], publicSubnets[m])

C19_Witness ==
    /\ cfgPc = "done" /\ cfgRet.err = Nil /\ zones = 3
    /\ publicMask = 24
    /\ privateSubnets = << [ip |-> <<10, 250, 0, 0>>, mask |-> 20],
                           [ip |-> <<10, 250, 16, 0>>, mask |-> 20],
                           [ip |-> <<10, 250, 32, 0>>, mask |-> 20] >>
    /\ publicSubnets = << [ip |-> <<10, 250, 48, 0>>, mask |-> 24],
                          [ip |-> <<10, 250, 49, 0>>, mask |-> 24],
                          [ip |-> <<10, 250, 50, 0>>, mask |-> 24] >>

RunStepReturned == shPc = "RunReturned"

\* C22: when a local operation inside SshuttleStep.RunStep fails (the
\* temporary private-key file cannot be created, written, closed or
\* chmod-ed, the PID file cannot be created or closed, sshuttle cannot be
\* started), RunStep returns an error with code Internal and does not
\* panic.
C22_LocalFailureReturnsInternal ==
    localFailure # Empty =>
        /\ shPc # "panicked"
        /\ RunStepReturned =>
              shRet.err # Nil /\ shRet.err.ErrorCode = "Internal"

\* Every local failure other than that of the first CreateTemp does end in
\* an Internal error.
LocalFailureAfterKeyFileIsInternal ==
    (localFailure # Empty /\ RunStepReturned) =>
        shRet.err # Nil /\ shRet.err.ErrorCode = "Internal"

\* C23: once RunStep has returned, by whatever path, neither the
\* temporary private-key file nor the temporary PID file is on disk.
C23_NoTempFileLeft ==
    RunStepReturned => KeyFile \notin tmpFiles /\ PidFile \notin tmpFiles

\* C24: whenever RunStep returns without error, SshuttlePID of the
\* returned runtime state is the pid of the sshuttle process that RunStep
\* started.
C24_PIDRecordedOnSuccess ==
    (RunStepReturned /\ shRet.err = Nil) =>
        started # Empty /\ shRet.state.SshuttlePID = started

\* C25: after RunStep has started a tunnel and the teardown (PostStep,
\* then StopSshuttle) has run, the process RunStep started is no longer
\* running.
C25_TeardownStopsStartedTunnel ==
    (shPc = "done" /\ started # Empty) => started \notin procs

\* C26: StopSshuttle returns nil when there is no PID file and when the
\* PID file names a process that is not running (any more).
C26_StopToleratesMissingOrDead ==
    (shPc = "done" /\ sshuttlePidFile \notin procs) => stopRet = Nil

\* Half of C26 holds: with no PID file StopSshuttle returns nil.
StopWithoutPidFileReturnsNil ==
    (shPc = "done" /\ sshuttlePidFile = Empty) => stopRet = Nil

\* C28: if the sshuttle start command fails or runs into its timeout,
\* RunStep returns an error with code Internal and the runtime state it
\* was given, SshuttlePID included; it never returns success then.
C28_FailedStartIsInternal ==
    (RunStepReturned /\ sshuttleErr # Nil) =>
        /\ shRet.err # Nil
        /\ shRet.err.ErrorCode = "Internal"
        /\ shRet.state = shState
        /\ shRet.state.SshuttlePID = shState.SshuttlePID

C28_Witness ==
    /\ RunStepReturned
    /\ sshuttleErr = ShellRunError("timeout")
    /\ shState.SshuttlePID = OldPID
    /\ shRet = PhaseResult(shState,
                  TFError("Internal", "failed to start sshuttle command"))

\* C29: PreStep returns no error only if the shell utility is set, sudo
\* and nc are available, no sshuttle process found running remains (one
\* that was found has been killed) and the jump-host private key is not
\* empty; a missing tool (or utility) gives an Internal error, as does
\* every other failure; and in every outcome the returned runtime state is
\* the one received.
C29_PreStepOutcome ==
    (shPc = "PreReturned" /\ preRuns = 1) =>
        /\ shRet.state = shState
        /\ shRet.err = Nil =>
              /\ shellUtilitySet
              /\ Tools \subseteq commands
              /\ procs = {}
              /\ shState.JumpHostSSHKeyPrivateKey # Empty
        /\ shRet.err # Nil => shRet.err.ErrorCode = "Internal"
        /\ ~(shellUtilitySet /\ Tools \subseteq commands) => shRet.err # Nil

\* PreStep has killed the one stale tunnel and returned no error.
C29_Witness ==
    /\ shPc = "PreReturned" /\ preRuns = 1
    /\ sshuttlePidFile = "101"
    /\ shState.JumpHostSSHKeyPrivateKey = "key"
    /\ shRet = PhaseResult(shState, Nil)
    /\ procs = {}

\* C27: PostStage does not change the aggregate that triggered it.  When
\* PostStep of step i returns an error, the aggregate PostStage builds,
\* and returns, holds that error at slot i, while slot i of the
\* triggering aggregate still holds the error PostStep was handed.  A
\* PostStep that, like AWSVPCStep.PostStep, returns the runtime state and
\* the previous error it was given leaves the canonical state as it was
\* and carries the previous error over into slot i.
C27_PostStageKeepsTriggeringAggregate ==
    [][ (pass = "PostStage" /\ pass' = "PostStage") =>
          /\ prevStageError' = prevStageError
          /\ Len(calls') = Len(calls) + 1 =>
                LET c == calls'[Len(calls')]
                    vpc == VPCPostStep(runtimeState, c.prev)
                IN  /\ c.prev = prevStageError.StepErrors[c.idx]
                    /\ c.err # Nil =>
                          /\ stepErrors'[c.idx] = c.err
                          /\ prevStageError'.StepErrors[c.idx] = c.prev
                    /\ (c.err = vpc.err /\ last'.returned = vpc.state) =>
                          /\ runtimeState' = runtimeState
                          /\ c.prev # Nil => stepErrors'[c.idx] = c.prev
          /\ pc' = "returned" =>
                \A n \in 1..Len(calls') :
                    calls'[n].err # Nil =>
                        /\ ret'.StepErrors[calls'[n].idx] = calls'[n].err
                        /\ prevStageError'.StepErrors[calls'[n].idx] =
                              calls'[n].prev ]_vars

\* PostStep of step 1 was handed the error of its RunStep and failed with
\* an error of its own.
C27_Witness ==
    /\ pass = "PostStage" /\ pc = "returned" /\ Len(calls) >= 1
    /\ calls[1].idx = 1
    /\ calls[1].prev = StepError("RunStep", 1)
    /\ calls[1].err = StepError("PostStep", 1)
    /\ ret.StepErrors[1] = StepError("PostStep", 1)
    /\ prevStageError.StepErrors[1] = StepError("RunStep", 1)

\* ids holds exactly one id for each of the subnets names, and nothing
\* else.
OneIdPerSubnet(ids, names) ==
    /\ Len(ids) = Cardinality(names)
    /\ \A name \in names :
          Cardinality({n \in 1..Len(ids) : ids[n] = SubnetId(name)}) = 1

\* The output has everything RunStep needs: vpc_id, both subnet objects,
\* and in them the id of every configured subnet.
OutputComplete(out) ==
    /\ out.vpc_id.kind = "value"
    /\ out.public_subnets.kind = "value"
    /\ ConfiguredPublicSubnets \subseteq out.public_subnets.ids
    /\ out.private_subnets.kind = "value"
    /\ ConfiguredPrivateSubnets \subseteq out.private_subnets.ids

\* C30: with Action install or upgrade and a successful run of the
\* Terraform module, AWSVPCStep.RunStep returns no error, VpcId equal to
\* the vpc_id output (the string the JSON value denotes) and, in
\* PublicSubnetIds and PrivateSubnetIds, exactly one id for each
\* configured subnet, whatever the order the subnets are visited in; if
\* vpc_id, public_subnets, private_subnets or the id of a configured
\* subnet is missing from the output (or a subnet object cannot be
\* parsed) it returns an error with the Terraform code.
C30_RunStepOutputs ==
    (tfPc = "done" /\ AppliesOn(tfAction) /\ tfRet.err = Nil) =>
        IF OutputComplete(tfRet.output)
        THEN /\ stepRet.err = Nil
             /\ JSONString(stepRet.VpcId) = tfRet.output.vpc_id.raw
             /\ OneIdPerSubnet(stepRet.PublicSubnetIds,
                               ConfiguredPublicSubnets)
             /\ OneIdPerSubnet(stepRet.PrivateSubnetIds,
                               ConfiguredPrivateSubnets)
        ELSE /\ stepRet.err # Nil
             /\ stepRet.err.ErrorCode = "Terraform"

\* An upgrade whose subnets were visited out of name order.
C30_Witness ==
    /\ tfPc = "done" /\ tfAction = "upgrade" /\ stepRet.err = Nil
    /\ stepRet.VpcId = <<"v", "p", "c", "2">>
    /\ stepRet.PublicSubnetIds = <<SubnetId("subnet-c-pub"),
                                   SubnetId("subnet-a-pub"),
                                   SubnetId("subnet-b-pub")>>
    /\ stepRet.PrivateSubnetIds = <<SubnetId("subnet-b"),
                                    SubnetId("subnet-a"),
                                    SubnetId("subnet-c")>>

\* A configured private subnet has no id in the output.
C30_MissingIdWitness ==
    /\ tfPc = "done" /\ tfAction = "install" /\ tfRet.err = Nil
    /\ tfRet.output.private_subnets =
          [kind |-> "value", ids |-> {"subnet-a", "subnet-c"}]
    /\ stepRet.err # Nil /\ stepRet.err.ErrorCode = "Terraform"
    /\ stepRet.PublicSubnetIds # <<>>

RunOrder(action) ==
    <<VariablesFile, BackendFile, "Init",
      IF action \in {"install", "upgrade"} THEN "Apply" ELSE "Destroy",
      "Output", "Cleanup">>

IsPrefix(s, t) == Len(s) <= Len(t) /\ s = SubSeq(t, 1, Len(s))

\* C32 as claimed: when the Action is uninstall and the destroy has
\* succeeded (and with it the Run), RunStep returns no error and the
\* runtime state unchanged, whatever the outputs hold.
C32_UninstallNeedsNoOutputs ==
    (/\ tfPc = "done" /\ tfAction = "uninstall"
     /\ tfRet.err = Nil /\ CallsOf("Destroy") = 1) =>
        stepRet.err = Nil /\ stepRet.wrote = {}

\* The action RunStep does return early on is never a successful one: the
\* utility rejects "destroy".
DestroyActionNeverSucceeds ==
    (tfPc = "done" /\ tfAction = "destroy") => stepRet.err # Nil

\* C34: the sub-steps of Run that succeed do so in one fixed order, each
\* after the one before it has succeeded: variables file written, backend
\* file written, Terraform initialized, apply or destroy, outputs read,
\* generated files cleaned up.  Apply or destroy is not even attempted
\* unless both files were written (and are there) and the initialization
\* succeeded, and nothing more happens once Run has returned.
C34_SubStepsInOrder ==
    /\ IsPrefix(tfSteps, RunOrder(tfAction))
    /\ (CallsOf("Apply") + CallsOf("Destroy") > 0) =>
          /\ IsPrefix(<<VariablesFile, BackendFile, "Init">>, tfSteps)
          /\ "Cleanup" \notin {tfSteps[n] : n \in 1..Len(tfSteps)} =>
                GeneratedFiles \subseteq files
    /\ (tfRet # Nil /\ tfRet.err # Nil) =>
          tfSteps # RunOrder(tfAction)

\* A complete destroy.
C34_Witness ==
    /\ tfPc = "RunReturned" /\ tfAction = "uninstall"
    /\ tfSteps = RunOrder("uninstall")
    /\ tfCalls = <<"Init", "Destroy", "Output">>

\* C35: Run returns either an output or an error, never both and never
\* neither; it returns an output only when every sub-step up to the
\* reading of the outputs has succeeded; and a generated file that could
\* not be deleted afterwards leaves the Run successful.
C35_OutputXorError ==
    tfPc \in {"RunReturned", "done"} =>
        /\ (tfRet.output # Nil) # (tfRet.err # Nil)
        /\ tfRet.output # Nil =>
              IsPrefix(SubSeq(RunOrder(tfAction), 1, 5), tfSteps)
        /\ tfRet.err # Nil =>
              ~IsPrefix(SubSeq(RunOrder(tfAction), 1, 5), tfSteps)
        /\ removeFailed # {} => tfRet.err = Nil /\ tfRet.output # Nil

\* A Run that could delete neither generated file and returned its output.
C35_Witness ==
    /\ tfPc = "RunReturned"
    /\ removeFailed = GeneratedFiles
    /\ tfRet.err = Nil
    /\ tfRet.output = tfOutput /\ tfOutput # Nil

\* C33 as claimed: a jump-host key that is not empty when ConfigStep is
\* entered has the same value in the state ConfigStep returns.
C33_KeysWriteOnce ==
    cfgPc = "done" =>
        \A f \in {"JumpHostSSHKeyPrivateKey", "JumpHostSSHKeyPublicKey"} :
            generated[f] # Empty => cfgRet.state[f] = generated[f]

\* When both keys are there, both are kept.
BothKeysKept ==
    (cfgPc = "done" /\ ~NeedsKeyPair(generated)) => cfgRet.state = generated

\* C31: the bucket the state-bucket step creates on install is called
\* OrchName-DeploymentID, and ConfigStep of the VPC step, when it succeeds,
\* configures its Terraform backend with exactly that bucket name and with
\* the configured region: the backend names the bucket that was created.
C31_BackendNamesStateBucket ==
    /\ \A b \in buckets :
          /\ b.Name = config.OrchName \o <<"-">> \o config.DeploymentId
          /\ b.Region = config.Region
    /\ (cfgPc = "done" /\ cfgRet.err = Nil) =>
          /\ backendConfig # Nil
          /\ backendConfig.Bucket = StateBucketName(config)
          /\ backendConfig.Region = config.Region
          /\ \A b \in buckets :
                /\ b.Name = backendConfig.Bucket
                /\ b.Region = backendConfig.Region

\* An install with a dash in both names: bucket created, backend configured.
C31_Witness ==
    /\ cfgPc = "done" /\ cfgRet.err = Nil
    /\ config.OrchName = <<"o", "-">> /\ config.DeploymentId = <<"-", "a">>
    /\ backendConfig # Nil
    /\ backendConfig.Bucket = <<"o", "-", "-", "-", "a">>
    /\ buckets = {[Region |-> config.Region,
                   Name |-> <<"o", "-", "-", "-", "a">>]}

\* C38: the password GeneratePassword returns has the four required
\* characters and the remaining ones in it (25 characters with the 21
\* remaining ones of the code), among them a lowercase letter, an uppercase
\* letter, a digit and a special character; the shuffle only permutes: at
\* every turn the string is made of the characters it started with.
C38_PasswordKeepsRequiredChars ==
    /\ pwPc = "shuffle" => IsPermutation(runes, password)
    /\ pwPc = "returned" =>
          /\ pwRet.err = Nil
          /\ Len(pwRet.password) = 4 + RemainingChars
          /\ IsPermutation(pwRet.password, password)
          /\ Chars(pwRet.password) \cap Lowercase # {}
          /\ Chars(pwRet.password) \cap Uppercase # {}
          /\ Chars(pwRet.password) \cap Digits # {}
          /\ Chars(pwRet.password) \cap Specials # {}

\* A password returned with its required characters moved from the front.
C38_Witness ==
    /\ pwPc = "returned"
    /\ SubSeq(password, 1, 4) = <<"b", "A", "0", "!">>
    /\ Len(pwRet.password) >= 4
    /\ SubSeq(pwRet.password, 1, 4) = <<"a", "!", "0", "A">>

\* What holds of WaitForNamespaceCreation in every state: nil is returned
\* only after a poll has reported Active, and a call that fails ends the
\* function with the error of that call.
WaitReturnsAreJustified ==
    /\ (wRet # Nil /\ wRet.err = Nil) => (activeSeen /\ wFailed = Empty)
    /\ wFailed # Empty =>
          /\ wPc = "returned"
          /\ wRet = [err |-> ExitError(wFailed)]
    /\ (wRet # Nil /\ wRet.err # Nil) => wFailed # Empty

\* C39: WaitForNamespaceCreation never returns nil before a poll has
\* reported the phase Active; it returns the error as soon as a kubectl or
\* jq call fails; and if the namespace eventually becomes Active and no
\* call fails, it eventually returns nil.
C39_WaitEndsWhenActive ==
    /\ []WaitReturnsAreJustified
    /\ (<>(nsPhase = "Active") /\ [](wFailed = Empty)) =>
          <>(wPc = "returned" /\ wRet = [err |-> Nil])

\* nil returned for a namespace that was polled Active.
C39_Witness ==
    /\ wPc = "returned"
    /\ wRet = [err |-> Nil]
    /\ activeSeen
    /\ wOut = "Active"
    /\ nsPhase = "Active"

\* A wait ended by a failing jq.
C39_FailureWitness ==
    /\ wPc = "returned"
    /\ wFailed = "jq"
    /\ wRet = [err |-> ExitError("jq")]
    /\ ~activeSeen

\* Without a time limit: as long as the phase is not Active and no call
\* fails, the function goes on polling.
WaitingNeverGivesUp ==
    [][(wPc = "Sleep" /\ wFailed' = Empty) => wRet' = Nil]_vars

\* C36 as claimed: at the overwrite prompt the answer y or yes removes the
\* configuration and ends the prompt, so that the function goes on to the
\* extraction; the answer n or no returns nil with the configuration kept;
\* any other answer leaves the function at the prompt.
C36_OverwriteAnswers ==
    /\ answer \in YesAnswers => acPc # "OverwritePrompt"
    /\ (answer \in NoAnswers /\ acPc = "returned") =>
          acRet = [err |-> Nil] /\ configExists
    /\ answer \notin YesAnswers \cup NoAnswers \cup {<<>>} =>
          acPc = "OverwritePrompt"

\* What the code does instead: the prompt is only ever left by the answer
\* n or no, and the extraction is reached only when no configuration was
\* there, with no question asked.
OverwritePromptOnlyLeftByNo ==
    /\ answer # <<>> =>
          \/ acPc = "OverwritePrompt"
          \/ acPc = "returned" /\ answer \in NoAnswers
                               /\ acRet = [err |-> Nil]
    /\ acPc \in {"Extract", "DockerPrompt", "DockerCheck", "EnterArgoIP",
                 "EnterTraefikIP", "EnterNginxIP", "ValidateIPs",
                 "ProceedPrompt", "exited"} => answer = <<>>

\* The three environment variables hold the three values.
IPEnvIsSet ==
    /\ env["ARGO_IP"] = [set |-> TRUE, value |-> argoIP]
    /\ env["TRAEFIK_IP"] = [set |-> TRUE, value |-> traefikIP]
    /\ env["NGINX_IP"] = [set |-> TRUE, value |-> nginxIP]

IPsCleared ==
    /\ argoIP = <<>> /\ traefikIP = <<>> /\ nginxIP = <<>>
    /\ \A n \in IPEnvNames : env[n] = Unset

\* C37: the address loop is left only with three values that all match the
\* dotted-quad pattern, and ARGO_IP, TRAEFIK_IP and NGINX_IP are then set
\* to them; after values of which one does not match, the three values are
\* empty and the three variables unset, and each of the three is asked for
\* again.
C37_IPLoopLeftOnlyWhenValid ==
    /\ acPc \in {"ProceedPrompt", "exited"} =>
          /\ MatchIP(argoIP) /\ MatchIP(traefikIP) /\ MatchIP(nginxIP)
          /\ IPEnvIsSet
    /\ acPc = "returned" =>
          \/ /\ MatchIP(argoIP) /\ MatchIP(traefikIP) /\ MatchIP(nginxIP)
             /\ IPEnvIsSet
          \/ IPsCleared
    /\ acPc = "EnterArgoIP" => IPsCleared
    /\ acPc = "EnterTraefikIP" => traefikIP = <<>> /\ nginxIP = <<>>
    /\ acPc = "EnterNginxIP" => nginxIP = <<>>
    /\ acPc = "ValidateIPs" => IPEnvIsSet

\* The loop left with two different addresses, one typed with blanks.
C37_Witness ==
    /\ acPc = "ProceedPrompt"
    /\ argoIP = <<"1", ".", "2", ".", "3", ".", "4">>
    /\ traefikIP = <<"1", "0", ".", "0", ".", "0", ".", "2", "5", "5">>
    /\ nginxIP = <<"1", ".", "2", ".", "3", ".", "4">>
    /\ IPEnvIsSet

\* Values that do not all match, about to be cleared.
C37_InvalidWitness ==
    /\ acPc = "ValidateIPs"
    /\ MatchIP(argoIP) /\ MatchIP(nginxIP)
    /\ traefikIP = <<"1", ".", "2", ".", "3", ".", "4", "/", "8">>
    /\ ENABLED ValidateIPs

===========================================================================
